---- MODULE Spec2Model ----
(***************************************************************************)
(* Model of the image-to-time-series reshuffling engine of smap_io:        *)
(* Img2Ts (calc, img_bulk, _read_image, _write_non_orthogonal) and the     *)
(* reshuffle() entry point that drives it.                                 *)
(*                                                                         *)
(* Spec       one run of reshuffle(): metadata pre-read, Img2Ts.calc with  *)
(*            its blocks, per-date reads, per-cell partition and writes.   *)
(* SpecWrite  one call of Img2Ts._write_non_orthogonal, with its retry     *)
(*            loop (FairSpecWrite adds the fairness of a running thread).  *)
(***************************************************************************)
EXTENDS Integers, Sequences, FiniteSets, TLC

(***************************************************************************)
(* Bounds of the model                                                     *)
(***************************************************************************)
MaxDays == 3        \* longest requested date range, in days
MaxBuffer == 2      \* largest finite imgbuffer (-1 is always included)
MaxPerFolder == 2   \* most entries counted in the folder of one day
MaxRequests == 4    \* most timestamps img_bulk requests in one run
MaxSlots == 2       \* most time slots (images) in the block a Cell Writer gets
MaxAttempts == 2    \* the count of caught OSErrors saturates here

(***************************************************************************)
(* Generic helpers (numpy / python list semantics)                         *)
(***************************************************************************)
None == "None"
PyTrue == "True"
PyFalse == "False"

Range(s) == {s[i] : i \in DOMAIN s}

SetMin(S) == CHOOSE x \in S : \A y \in S : x <= y

\* Permutations p of 1..Len(a) such that a[p[1]] <= a[p[2]] <= ... :
\* the possible results of np.argsort(a) (the default kind is not stable).
ArgSorts(a) ==
    {p \in [1..Len(a) -> 1..Len(a)] :
        /\ \A i, j \in 1..Len(a) : i # j => p[i] # p[j]
        /\ \A i \in 1..(Len(a) - 1) : a[p[i]] <= a[p[i + 1]]}

\* a[order] (numpy fancy indexing with an index array)
Take(a, order) == [i \in 1..Len(order) |-> a[order[i]]]

\* a[lo:hi] with 0-based python bounds
Slice(a, lo, hi) == SubSeq(a, lo + 1, hi)

\* np.split(a, indices): the pieces a[:i1], a[i1:i2], ..., a[ik:]
NpSplit(a, indices) ==
    [k \in 1..(Len(indices) + 1) |->
        Slice(a,
              IF k = 1 THEN 0 ELSE indices[k - 1],
              IF k = Len(indices) + 1 THEN Len(a) ELSE indices[k])]

\* python's seq[1:]
Tail1(s) == SubSeq(s, 2, Len(s))

\* sorted sequence of the elements of a finite set of integers
RECURSIVE SortedSeq(_)
SortedSeq(S) ==
    IF S = {} THEN <<>> ELSE <<SetMin(S)>> \o SortedSeq(S \ {SetMin(S)})

\* timestamps = timestamps[order] in img_bulk
SortTimestamps(ts, order) == Take(ts, order)

\* Mutant of SortRows: the rows stay in the order the reads completed
SortRows_CompletionOrder(rows, order) == rows

\* np.ma.vstack(v)[order] in img_bulk: the stacked rows in timestamp order
SortRows(rows, order) == Take(rows, order)

\* np.all(_cells[:-1] <= _cells[1:])
CellsSorted(cells) == \A i \in 1..(Len(cells) - 1) : cells[i] <= cells[i + 1]

\* cells_order of calc: np.argsort(_cells), or no reordering (the identity)
\* when the cells are sorted already
CellsOrders(cells) ==
    IF CellsSorted(cells) THEN {[i \in 1..Len(cells) |-> i]} ELSE ArgSorts(cells)

\* np.unique(a, return_index=True, return_counts=True)
\* Mutant of NpUniqueValues: the cell of every location, repeats included
NpUniqueValues_Repeats(a) == a
NpUniqueValues(a) == SortedSeq(Range(a))
NpUniqueCounts(a) ==
    [k \in 1..Cardinality(Range(a)) |->
        Cardinality({i \in DOMAIN a : a[i] = NpUniqueValues(a)[k]})]
\* Mutant of NpUniqueIndices: the counts are taken for the split positions
NpUniqueIndices_Counts(a) == NpUniqueCounts(a)
NpUniqueIndices(a) ==
    [k \in 1..Cardinality(Range(a)) |->
        SetMin({i \in DOMAIN a : a[i] = NpUniqueValues(a)[k]}) - 1]
\* img[:, cells_order]: reorder the location axis of a (time x location) array
SortColumns(m, order) == [t \in DOMAIN m |-> Take(m[t], order)]

\* Mutant of SortGrid: the data are sorted by cell, the grid is not
SortGrid_Unsorted(grid, order) == grid

\* CellGrid(lon[cells_order], lat[cells_order], gpis[cells_order], cells[cells_order])
SortGrid(grid, order) ==
    [gpis  |-> Take(grid.gpis, order),
     cells |-> Take(grid.cells, order),
     lons  |-> Take(grid.lons, order),
     lats  |-> Take(grid.lats, order)]

\* np.swapaxes(np.atleast_2d(v), 0, 1): (time x location) -> (location x time)
SwapAxes(m, nloc) == [p \in 1..nloc |-> [t \in DOMAIN m |-> m[t][p]]]

(***************************************************************************)
(* State                                                                   *)
(***************************************************************************)
VARIABLES
    \* ---- arguments of the run (fixed at construction)
    entry,            \* "reshuffle": started by reshuffle(); "Img2Ts": calc() called on a caller-built Img2Ts
    source,           \* per requested day: what imgin.read finds for that date
    imgbuffer,        \* Img2Ts.imgbuffer
    ignore_errors,    \* Img2Ts.ignore_errors
    n_proc,           \* Img2Ts.n_proc
    target_grid,      \* Img2Ts.target_grid: [gpis, cells, lons, lats], parallel arrays
    overpass,         \* SPL3SMP_Ds.overpass: "AM", "PM" or "BOTH"
    elements_per_folders,  \* Img2Ts.elements_per_folders: reads per requested timestamp
    \* ---- module globals of smap_io.interface
    counter,          \* interface.counter
    overpass_state_AM,  \* interface.overpass_state_AM
    \* ---- Img2Ts attributes and the position of calc / img_bulk
    pc,               \* phase of the run
    orthogonal,       \* Img2Ts.orthogonal: None, PyTrue or PyFalse
    timekey,          \* Img2Ts.timekey
    grid_refs,        \* what self.target_grid / self.input_grid refer to, and
                      \* the locals target_grid / input_grid of img_bulk and calc
    global_attr,      \* Img2Ts.global_attr: None or [time_coverage_end |-> ...]
    chunk,            \* number of the block img_bulk is at (0: none yet)
    pending,          \* request indices of the block whose _read_image has not run
    results,          \* parallel_process results of the block: <<img, orthogonal>> pairs
    img_dict,         \* yielded block: variable -> rows (time x location)
    timestamps,       \* yielded block: timestamps of the rows
    ITER_KWARGS,      \* per-cell partitions handed to the Cell Writer
    to_write,         \* indices into ITER_KWARGS whose write has not been dispatched
    \* ---- observation (history) variables
    grid_saved,       \* number of grid2nc.save_grid calls
    reads,            \* request indices for which _read_image was called, in call order
    yielded,          \* per yielded block: its timestamps and the time keys of its images
    writes            \* Cell Writer invocations: [blk, cell, ok]

cfgVars  == <<entry, source, imgbuffer, ignore_errors, n_proc, target_grid,
              overpass, elements_per_folders>>
moduleVars == <<counter, overpass_state_AM>>
selfVars == <<orthogonal, timekey, grid_refs, global_attr>>
bulkVars == <<chunk, pending, results, img_dict, timestamps>>
calcVars == <<ITER_KWARGS, to_write>>
histVars == <<grid_saved, reads, yielded, writes>>
runVars  == <<cfgVars, moduleVars, pc, selfVars, bulkVars, calcVars, histVars>>

\* One call of a Cell Writer (_write_orthogonal / _write_non_orthogonal)
VARIABLES
    wpc,              \* position inside the Cell Writer ("idle": not in a call)
    resample,         \* Img2Ts.resample
    r_fill_values,    \* Img2Ts.r_fill_values: [kind |-> "None" | "nan" | "num", x]
    exclude_missing_time_stamps,  \* Img2Ts.exclude_missing_time_stamps
    cell_gpis,        \* argument cell_gpis (cell_lons / cell_lats follow from it)
    cell_time,        \* argument celldata[self.timekey], shape [location][slot]
    cell_sm,          \* argument celldata["sm"], shape [location][slot]
    gpi_time,         \* local gpi_time: the flattened time variable
    valid_mask,       \* local valid_mask
    celldata,         \* local celldata: variable -> flat array
    gpis,             \* local gpis
    lons,             \* local lons
    lats,             \* local lats
    time_array,       \* local time_array
    attempts,         \* OSErrors caught so far, counted up to MaxAttempts
    oserror,          \* the OSError caught last: its cause, or "none"
    handed            \* the argument sets dataout.write / write_all were called with

\* What the run before this one, in the same process and over the same
\* input, has produced
VARIABLE first_run

\* One image on its way through the grid handling of Img2Ts._read_image
VARIABLES
    input_grid,       \* Img2Ts.input_grid
    grid_image        \* the image: as read, and as _read_image hands it on

gridVars == <<input_grid, grid_image>>

\* Calls into smap_io.interface: SPL3SMP_Img.read and the module functions
VARIABLES
    h5file,           \* the file of the reader: [openable, groups, base, attrs]
    img_overpass,     \* SPL3SMP_Img.overpass: "AM", "PM", "BOTH" or None
    var_overpass_str, \* SPL3SMP_Img.var_overpass_str
    img_gpis,         \* SPL3SMP_Img.grid.activegpis (positions in the flat image)
    calls,            \* the calls made so far: [fn, arg, before, after, ret]
    readers           \* reads with overpass BOTH that run side by side: the
                      \* dates each one still has to read, its position in
                      \* read() and its local op, and the images returned

imgVars == <<h5file, img_overpass, var_overpass_str, img_gpis, calls, readers>>

writerCfg  == <<resample, r_fill_values, exclude_missing_time_stamps>>
writerArgs == <<cell_gpis, cell_time, cell_sm>>
writerLocals == <<gpi_time, valid_mask, celldata, gpis, lons, lats, time_array>>
writerVars == <<wpc, writerCfg, writerArgs, writerLocals, attempts, oserror, handed>>
vars == <<runVars, writerVars, imgVars, gridVars, first_run>>

(***************************************************************************)
(* Input data set and grid                                                 *)
(***************************************************************************)
TimeKeyName == "tb_time_seconds"
Variables == {"sm", TimeKeyName}

\* What imgin.read(date) finds: an image with one shared timestamp (no time
\* key), an image with per-sample timestamps (time key set), no readable
\* file (IOError), or a file without the requested group (NameError).
Kinds == {"ortho", "ragged", "ioerror", "nameerror"}

\* A file that holds the PM retrieval group and no AM group. For a single
\* overpass it is a "nameerror" file (AM) or a readable one (PM); it is a
\* kind of its own for a data set read with overpass BOTH.
KindsBoth == Kinds \cup {"pm_only"}

\* The retrieval groups (overpasses) a file of a kind holds
GroupsOf(kind) ==
    IF kind \in {"ortho", "ragged"} THEN {"AM", "PM"}
    ELSE IF kind = "pm_only" THEN {"PM"} ELSE {}

\* Longitude / latitude of a grid point
LonOf(g) == 20 + g
LatOf(g) == 40 + g

MkGrid(activegpis, activearrcell) ==
    [gpis |-> activegpis, cells |-> activearrcell,
     lons |-> [i \in DOMAIN activegpis |-> LonOf(activegpis[i])],
     lats |-> [i \in DOMAIN activegpis |-> LatOf(activegpis[i])]]

\* Target grids: cell ids sorted along the location axis, and not sorted
\* (a row-major grid crosses cell borders, as EASE36CellGrid does).
Grids ==
    { MkGrid(<<1, 2, 3>>, <<0, 0, 1>>),
      MkGrid(<<1, 2, 3>>, <<1, 0, 1>>),
      MkGrid(<<3, 1, 2>>, <<2, 2, 0>>) }

\* Value of variable v in image i at grid point g
PixelValue(v, i, g) == (IF v = "sm" THEN 0 ELSE 500) + i * 10 + g
ReqOfValue(x) == (x % 500) \div 10
GpiOfValue(x) == x % 10

\* The image (group of a file) that holds the data of a date and an overpass
ImageCode(date, op) == IF op = "PM" THEN date + 20 ELSE date
DateOfCode(i) == i % 20
OpOfCode(i) == IF i >= 20 THEN "PM" ELSE "AM"

(***************************************************************************)
(* Requested timestamps and their blocks (img_bulk)                        *)
(***************************************************************************)
NumDays == Len(source)

\* imgin.tstamps_for_daterange(startdate, enddate): one timestamp per day,
\* days counted from the start date; each of them twice for overpass BOTH
TstampsForDaterange ==
    IF overpass = "BOTH"
    THEN [k \in 1..(2 * NumDays) |-> (k + 1) \div 2]
    ELSE [d \in 1..NumDays |-> d]

\* count_elements_in_folders: one count per day folder found under the
\* input root within the date range, sorted by folder name; c[d] is the
\* number of entries of the folder of day d
CountElementsInFolders(c, folders) ==
    [k \in 1..Cardinality(folders) |-> c[SortedSeq(folders)[k]]]

\* [x] * n
Repeat(x, n) == [k \in 1..n |-> x]

\* img_bulk, lines 785-790: timestamps[i] repeated elements_per_folders[i]
\* times, for every index i of the timestamps
RECURSIVE ExpandTimestamps(_, _, _)
ExpandTimestamps(ts, epf, i) ==
    IF i > Len(ts) THEN <<>>
    ELSE Repeat(ts[i], epf[i]) \o ExpandTimestamps(ts, epf, i + 1)

\* elements_per_folders[i] raises IndexError for an index beyond its length
ExpansionRaises == Len(elements_per_folders) < Len(TstampsForDaterange)

\* The timestamps img_bulk requests
Requests ==
    IF ExpansionRaises THEN <<>>
    ELSE ExpandTimestamps(TstampsForDaterange, elements_per_folders, 1)

\* Mutant of IdxChunks: runs of n + 1 dates
IdxChunks_OneMore(len, n) ==
    IF n = -1
    THEN << [i \in 1..len |-> i] >>
    ELSE [c \in 1..((len + n) \div (n + 1)) |->
            [i \in 1..(IF c * (n + 1) <= len THEN n + 1 ELSE len - (c - 1) * (n + 1)) |->
                (c - 1) * (n + 1) + i]]

\* idx_chunks(index, n): the whole index when n = -1, else runs of n
IdxChunks(len, n) ==
    IF n = -1
    THEN << [i \in 1..len |-> i] >>
    ELSE [c \in 1..((len + n - 1) \div n) |->
            [i \in 1..(IF c * n <= len THEN n ELSE len - (c - 1) * n) |->
                (c - 1) * n + i]]

Chunks == IdxChunks(Len(Requests), imgbuffer)

(***************************************************************************)
(* _read_image                                                             *)
(***************************************************************************)
\* SPL3SMP_Img.time_key, one setting for all images of a data set with
\* overpass groups
DatasetTimeKey == IF "ortho" \in Range(source) THEN None ELSE TimeKeyName

\* The overpass SPL3SMP_Img.read selects (lines 173-178)
ReadOp == IF overpass = "BOTH"
          THEN IF overpass_state_AM THEN "AM" ELSE "PM"
          ELSE overpass

\* The Image imgin.read returns for a date and the overpass op, on the
\* target grid
ImageOf(date, op) ==
    [timestamp |-> date,
     op        |-> op,
     timekey   |-> IF source[date] = "ragged" THEN TimeKeyName
                   ELSE IF source[date] = "ortho" THEN None ELSE DatasetTimeKey,
     data      |-> [v \in Variables |->
                      [p \in DOMAIN target_grid.gpis |->
                          PixelValue(v, ImageCode(date, op), target_grid.gpis[p])]]]

\* Outcome of imgin.read(date) for the overpass op: the exception raised, or
\* "ok". A file of a single-overpass data set has the group or has none.
ReadOutcome(date, op) ==
    IF source[date] = "ioerror" THEN "IOError"
    ELSE IF overpass = "BOTH" /\ op \notin GroupsOf(source[date]) THEN "NameError"
    ELSE IF source[date] = "nameerror" THEN "NameError"
    ELSE "ok"

\* lines 285-290: a completed read with overpass BOTH counts itself and,
\* unless it is the first one of the process, flips overpass_state_AM
CountRead ==
    IF overpass = "BOTH"
    THEN /\ counter' = counter + 1
         /\ overpass_state_AM' = IF counter > 0 THEN ~overpass_state_AM
                                 ELSE overpass_state_AM
    ELSE UNCHANGED moduleVars

\* The layout decision of _read_image for an image, given self.orthogonal
\* as the worker sees it: the mode (PyTrue / PyFalse), or "Img2TsError"
LayoutOf(image, self_orthogonal) ==
    IF image.timekey # None
    THEN IF self_orthogonal = None THEN PyFalse
         ELSE IF self_orthogonal = PyTrue THEN "Img2TsError" ELSE self_orthogonal
    ELSE IF self_orthogonal = None THEN PyTrue
         ELSE IF self_orthogonal = PyFalse THEN "Img2TsError" ELSE self_orthogonal

\* Outcome of _read_image(date of request i): None (the IOError is caught),
\* an exception, or the pair (image, orthogonal)
ReadImageOutcome(i, self_orthogonal) ==
    LET read  == ReadOutcome(Requests[i], ReadOp)
        image == ImageOf(Requests[i], ReadOp)
    IN
    IF read = "IOError" THEN [tag |-> "none"]
    ELSE IF read = "NameError" THEN [tag |-> "raise", exc |-> "NameError"]
    ELSE IF LayoutOf(image, self_orthogonal) = "Img2TsError"
         THEN [tag |-> "raise", exc |-> "Img2TsError"]
         ELSE [tag |-> "ok",
               res |-> <<image, LayoutOf(image, self_orthogonal)>>]

(***************************************************************************)
(* The run: reshuffle() and Img2Ts.calc()                                  *)
(***************************************************************************)
EmptyIterKwargs ==
    [cell |-> <<>>, cell_gpis |-> <<>>, cell_lons |-> <<>>, cell_lats |-> <<>>,
     data |-> <<>>]

\* No reads run side by side
NoReaders == [started |-> FALSE, todo |-> <<>>, at |-> <<>>, op |-> <<>>, got |-> <<>>]

\* No reader of smap_io.interface is under observation
ImgIdle ==
    /\ h5file = [openable |-> TRUE]
    /\ img_overpass = "AM"
    /\ var_overpass_str = TRUE
    /\ img_gpis = <<>>
    /\ calls = <<>>
    /\ readers = NoReaders

\* No run has gone before, the input grid is the target grid (what
\* reshuffle() passes), and no single image is followed
GridsEqual ==
    /\ first_run = [tag |-> "none"]
    /\ input_grid = target_grid
    /\ grid_image = [tag |-> "none"]

\* A reference to a grid object, and the reference None
GridRef(g) == [tag |-> "grid", grid |-> g]

NoneRef == [tag |-> "None"]

NoGrids == [target_grid |-> NoneRef, input_grid |-> NoneRef]

\* Img2Ts.__init__: self.target_grid and self.input_grid refer to the grids
\* passed in; the locals of img_bulk and calc are not bound yet
NewRefs(tg, ig) ==
    [self     |-> [target_grid |-> GridRef(tg), input_grid |-> GridRef(ig)],
     img_bulk |-> NoGrids,
     calc     |-> NoGrids]

\* target_grid = self.target_grid; input_grid = self.input_grid;
\* self.target_grid = None; self.input_grid = None, in method who
Detach(refs, who) == [refs EXCEPT ![who] = refs.self, !.self = NoGrids]

Reattach_FromOtherMethod(refs, who) ==
    [refs EXCEPT !.self = IF who = "calc" THEN refs.img_bulk ELSE refs.calc]

\* self.target_grid = target_grid; self.input_grid = input_grid, in method
\* who
Reattach(refs, who) == [refs EXCEPT !.self = refs[who]]

\* No Cell Writer call is in progress
WriterIdle ==
    /\ wpc = "idle"
    /\ resample = FALSE
    /\ r_fill_values = [kind |-> "None"]
    /\ exclude_missing_time_stamps = TRUE
    /\ cell_gpis = <<>>
    /\ cell_time = <<>>
    /\ cell_sm = <<>>
    /\ gpi_time = <<>>
    /\ valid_mask = <<>>
    /\ celldata = [sm |-> <<>>]
    /\ gpis = <<>>
    /\ lons = <<>>
    /\ lats = <<>>
    /\ time_array = <<>>
    /\ attempts = 0
    /\ oserror = "none"
    /\ handed = {}

Init ==
    /\ entry \in {"reshuffle", "Img2Ts"}
    /\ overpass \in {"AM", "PM", "BOTH"}
    /\ source \in UNION {[1..n -> KindsBoth] : n \in 1..MaxDays}
    /\ overpass # "BOTH" => "pm_only" \notin Range(source)
    \* reshuffle() passes the entries counted per day folder of the range, or
    \* 1 per such folder, and twice that for BOTH; another caller passes one
    \* number per timestamp
    /\ IF entry = "reshuffle"
       THEN \E c \in [1..Len(source) -> 1..MaxPerFolder],
               folders \in SUBSET (1..Len(source)) :
              \* a day that has a file has a folder
              /\ \A d \in 1..Len(source) : source[d] # "ioerror" => d \in folders
              /\ elements_per_folders =
                     [k \in 1..Cardinality(folders) |->
                         IF overpass = "BOTH"
                         THEN 2 * CountElementsInFolders(c, folders)[k]
                         ELSE CountElementsInFolders(c, folders)[k]]
       ELSE elements_per_folders \in
                [1..Len(TstampsForDaterange) -> 1..MaxPerFolder]
    /\ Len(Requests) <= MaxRequests
    \* the module globals: as imported, or as earlier reads with overpass
    \* BOTH in this process have left them
    /\ counter \in {0, 1}
    /\ overpass_state_AM \in BOOLEAN
    /\ counter = 0 => overpass_state_AM
    /\ overpass # "BOTH" => counter = 0
    /\ imgbuffer \in {-1} \cup 1..MaxBuffer
    /\ ignore_errors \in BOOLEAN
    /\ n_proc \in {1, 2}
    /\ target_grid \in Grids
    \* reshuffle() leaves ignore_errors and n_proc at their defaults, and its
    \* reader has one time_key setting for all images
    /\ (entry = "reshuffle" \/ overpass = "BOTH") =>
          ~({"ortho", "ragged"} \subseteq Range(source))
    /\ entry = "reshuffle" =>
          /\ ~ignore_errors
          /\ n_proc = 1
    \* runs with a PM or BOTH data set, or with more than one element per
    \* timestamp, are explored with one worker (the reads of a BOTH data set
    \* share the module globals) and on the first grid
    /\ (overpass # "AM" \/ \E i \in DOMAIN elements_per_folders :
                               elements_per_folders[i] # 1) =>
          /\ n_proc = 1
          /\ target_grid = MkGrid(<<1, 2, 3>>, <<0, 0, 1>>)
    /\ pc = IF entry = "reshuffle" THEN "Reshuffle" ELSE "Idle"
    /\ WriterIdle
    /\ ImgIdle
    /\ GridsEqual
    /\ orthogonal = None
    /\ timekey = None
    /\ grid_refs = NewRefs(target_grid, input_grid)
    /\ global_attr = None
    /\ chunk = 0
    /\ pending = {}
    /\ results = <<>>
    /\ img_dict = <<>>
    /\ timestamps = <<>>
    /\ ITER_KWARGS = EmptyIterKwargs
    /\ to_write = {}
    /\ grid_saved = 0
    /\ reads = <<>>
    /\ yielded = <<>>
    /\ writes = <<>>

\* reshuffle(): the metadata read of the start date, outside any handler
PreRead ==
    /\ pc = "Reshuffle"
    /\ IF ReadOutcome(1, ReadOp) = "ok"
       THEN pc' = "Idle" /\ CountRead
       ELSE pc' = "Raised" /\ UNCHANGED moduleVars
    /\ UNCHANGED <<first_run, gridVars, imgVars, writerVars, cfgVars, selfVars, bulkVars, calcVars, histVars>>

\* calc(): grid2nc.save_grid, before the loop over img_bulk()
SaveGrid ==
    /\ pc = "Idle"
    /\ pc' = "GridPersisted"
    /\ grid_saved' = grid_saved + 1
    /\ UNCHANGED <<first_run, gridVars, imgVars, writerVars, moduleVars, cfgVars, selfVars, bulkVars, calcVars, reads, yielded, writes>>

\* A loop that asks for the next block while cell writes are still out
AtLoopHead_BeforeWritesReturn ==
    \/ pc = "GridPersisted"
    \/ pc = "WriteCells"

\* Mutant of AtLoopHead: the loop may start before the grid is saved
AtLoopHead_SkipsGridPersisted ==
    \/ pc \in {"Idle", "GridPersisted"}
    \/ pc = "WriteCells" /\ to_write = {}

\* calc() asks img_bulk for the next block: at the start, or when the
\* parallel_process of the previous block's cell writes has returned
AtLoopHead ==
    \/ pc = "GridPersisted"
    \/ pc = "WriteCells" /\ to_write = {}

\* img_bulk: next chunk of dates; detach the grids, dispatch the reads
BeginReadBlock ==
    /\ AtLoopHead
    /\ ~ExpansionRaises
    /\ chunk < Len(Chunks)
    /\ pc' = "ReadBlock"
    /\ chunk' = chunk + 1
    /\ pending' = Range(Chunks[chunk + 1])
    /\ results' = <<>>
    /\ img_dict' = <<>>
    /\ timestamps' = <<>>
    /\ ITER_KWARGS' = EmptyIterKwargs
    /\ grid_refs' = Detach(grid_refs, "img_bulk")
    /\ UNCHANGED <<first_run, gridVars, imgVars, writerVars, moduleVars, cfgVars, orthogonal, timekey, global_attr, to_write, histVars>>

\* img_bulk, entered for its first block: the expansion of the timestamps
\* raises IndexError
ExpandFails ==
    /\ AtLoopHead
    /\ chunk = 0
    /\ ExpansionRaises
    /\ pc' = "Raised"
    /\ UNCHANGED <<first_run, gridVars, imgVars, writerVars, moduleVars, cfgVars, selfVars, bulkVars, calcVars,
                   histVars>>

\* img_bulk is exhausted: calc() returns
Finish ==
    /\ AtLoopHead
    /\ ~ExpansionRaises
    /\ chunk = Len(Chunks)
    /\ pc' = "Done"
    /\ UNCHANGED <<first_run, gridVars, imgVars, writerVars, moduleVars, cfgVars, selfVars, bulkVars, calcVars,
                   histVars>>

\* parallel_process runs _read_image for one date of the block: in order
\* when n_proc = 1, in any order otherwise. A None result is dropped, an
\* exception is logged and dropped under ignore_errors and raised otherwise.
ReadImage(i) ==
    /\ pc = "ReadBlock"
    /\ i \in pending
    /\ n_proc = 1 => i = SetMin(pending)
    /\ pending' = pending \ {i}
    /\ reads' = Append(reads, i)
    /\ LET out == ReadImageOutcome(i, orthogonal) IN
         /\ results' = IF out.tag = "ok" THEN Append(results, out.res) ELSE results
         /\ pc' = IF out.tag = "raise" /\ ~ignore_errors THEN "Raised" ELSE pc
    /\ IF ReadOutcome(Requests[i], ReadOp) = "ok"
       THEN CountRead ELSE UNCHANGED moduleVars
    /\ UNCHANGED <<first_run, gridVars, imgVars, writerVars, cfgVars, selfVars, chunk, img_dict, timestamps, calcVars,
                   grid_saved, yielded, writes>>

\* img_bulk, after parallel_process: stack the results, set the layout mode
\* from the first result, sort by timestamp, reattach the grids and yield
YieldBlock ==
    /\ pc = "ReadBlock"
    /\ pending = {}
    /\ LET n    == Len(results)
           ts   == [k \in 1..n |-> results[k][1].timestamp]
           keys == IF n = 0 THEN {} ELSE Variables
           rows == [v \in keys |-> [k \in 1..n |-> results[k][1].data[v]]]
           tks  == [k \in 1..n |-> results[k][1].timekey]
           set  == {k \in 1..n : tks[k] # None}
       IN
         /\ orthogonal' = IF orthogonal = None /\ n > 0
                          THEN results[1][2] ELSE orthogonal
         /\ timekey' = IF timekey = None /\ set # {}
                       THEN tks[SetMin(set)] ELSE timekey
         /\ \E order \in ArgSorts(ts) :
              /\ timestamps' = SortTimestamps(ts, order)
              /\ img_dict' = [v \in keys |-> SortRows(rows[v], order)]
              /\ yielded' = Append(yielded,
                     [timestamps |-> Take(ts, order),
                      timekeys   |-> Take(tks, order),
                      ops        |-> Take([k \in 1..n |-> results[k][1].op], order)])
    /\ results' = <<>>
    /\ grid_refs' = Reattach(grid_refs, "img_bulk")
    /\ pc' = "PartitionByCell"
    /\ UNCHANGED <<first_run, gridVars, imgVars, writerVars, moduleVars, cfgVars, global_attr, chunk, pending, calcVars,
                   grid_saved, reads, writes>>

\* np.split(a, indices)[1:]
SplitByCell(a, indices) == Tail1(NpSplit(a, indices))

\* The attribute taken from the first timestamp of the block
TimeCoverageEnd_First(ts) ==
    IF Len(ts) > 0 THEN ToString(ts[1]) ELSE "unknown"

\* calc, lines 723-727: str(timestamps[-1]), and "unknown" on IndexError
TimeCoverageEnd(ts) ==
    IF Len(ts) > 0 THEN ToString(ts[Len(ts)]) ELSE "unknown"

\* calc, lines 639-726: detach the grids, sort the block and the grid by cell
\* when needed, split both at the cell borders, set time_coverage_end
PartitionByCell ==
    /\ pc = "PartitionByCell"
    /\ \E cells_order \in CellsOrders(target_grid.cells) :
         LET _grid   == SortGrid(target_grid, cells_order)
             indices == NpUniqueIndices(_grid.cells)
             nloc    == Len(target_grid.gpis)
         IN ITER_KWARGS' =
              [cell      |-> NpUniqueValues(_grid.cells),
               data      |-> [v \in DOMAIN img_dict |->
                                SplitByCell(
                                    SwapAxes(SortColumns(img_dict[v], cells_order),
                                             nloc),
                                    indices)],
               cell_gpis |-> SplitByCell(_grid.gpis, indices),
               cell_lons |-> SplitByCell(_grid.lons, indices),
               cell_lats |-> SplitByCell(_grid.lats, indices)]
    /\ to_write' = 1..Cardinality(Range(target_grid.cells))
    /\ global_attr' = [time_coverage_end |-> TimeCoverageEnd(timestamps)]
    /\ grid_refs' = Detach(grid_refs, "calc")
    /\ pc' = "WriteCells"
    /\ UNCHANGED <<first_run, gridVars, imgVars, writerVars, moduleVars, cfgVars, orthogonal, timekey, bulkVars, histVars>>

\* self.filename_templ % cell with the template '%04d.nc': the decimal digits
\* of the cell, zero-padded to four places
FileName(cell) == [i \in 1..4 |-> (cell \div (10 ^ (4 - i))) % 10]

\* The Cell Writer calc selects: _write_orthogonal only when self.orthogonal
\* is true
WriterFunc == IF orthogonal = PyTrue THEN "_write_orthogonal"
              ELSE "_write_non_orthogonal"

\* Outcomes of one Cell Writer call with the k-th partition: it returns, or
\* raises. _write_non_orthogonal raises KeyError at celldata[self.timekey]
\* when the block has no such variable; what the archive library does with
\* an orthogonal write of no variables is not fixed by this code.
WriteOutcomes(k) ==
    IF WriterFunc = "_write_non_orthogonal"
    THEN IF timekey \in DOMAIN ITER_KWARGS.data THEN {"ok"} ELSE {"KeyError"}
    ELSE IF DOMAIN ITER_KWARGS.data = {} THEN {"ok", "Error"} ELSE {"ok"}

\* parallel_process runs the Cell Writer for one cell of the block: in order
\* when n_proc = 1, in any order otherwise; an exception is logged and
\* dropped under ignore_errors and raised otherwise. When the last cell has
\* returned, calc puts the grids back on the object.
WriteCell(k) ==
    /\ pc = "WriteCells"
    /\ k \in to_write
    /\ n_proc = 1 => k = SetMin(to_write)
    /\ to_write' = to_write \ {k}
    /\ \E out \in WriteOutcomes(k) :
         /\ writes' = Append(writes, [blk |-> chunk, cell |-> ITER_KWARGS.cell[k],
                                      func |-> WriterFunc, ok |-> out = "ok",
                                      time_coverage_end |-> global_attr.time_coverage_end])
         /\ pc' = IF out # "ok" /\ ~ignore_errors THEN "Raised" ELSE pc
         /\ grid_refs' = IF to_write = {k} /\ (out = "ok" \/ ignore_errors)
                          THEN Reattach(grid_refs, "calc")
                          ELSE grid_refs
    /\ UNCHANGED <<first_run, gridVars, imgVars, writerVars, moduleVars, cfgVars, orthogonal, timekey, global_attr,
                   bulkVars, ITER_KWARGS, grid_saved, reads, yielded>>

Next ==
    \/ PreRead
    \/ SaveGrid
    \/ BeginReadBlock
    \/ ExpandFails
    \/ \E i \in 1..MaxRequests : ReadImage(i)
    \/ YieldBlock
    \/ PartitionByCell
    \/ \E k \in 1..3 : WriteCell(k)
    \/ Finish

Spec == Init /\ [][Next]_vars

\* A run has ended: calc returned, or an exception left reshuffle()
RunEnded == pc \in {"Done", "Raised"}

\* reshuffle() is called again in the same process, with the same arguments
\* and an empty output directory: a new data set and a new Img2Ts, while the
\* globals of smap_io.interface stay as the first run left them
RunAgain ==
    /\ RunEnded
    /\ first_run.tag = "none"
    /\ first_run' = [tag |-> "ended", pc |-> pc, yielded |-> yielded, writes |-> writes]
    /\ pc' = IF entry = "reshuffle" THEN "Reshuffle" ELSE "Idle"
    /\ orthogonal' = None
    /\ timekey' = None
    /\ grid_refs' = NewRefs(target_grid, input_grid)
    /\ global_attr' = None
    /\ chunk' = 0
    /\ pending' = {}
    /\ results' = <<>>
    /\ img_dict' = <<>>
    /\ timestamps' = <<>>
    /\ ITER_KWARGS' = EmptyIterKwargs
    /\ to_write' = {}
    /\ grid_saved' = 0
    /\ reads' = <<>>
    /\ yielded' = <<>>
    /\ writes' = <<>>
    /\ UNCHANGED <<gridVars, imgVars, writerVars, moduleVars, cfgVars>>

\* Two reshuffle() runs, the first one in a fresh process
InitTwice ==
    /\ Init
    /\ entry = "reshuffle"
    /\ counter = 0

NextTwice == Next \/ RunAgain

SpecTwice == InitTwice /\ [][NextTwice]_vars

(***************************************************************************)
(* The Cell Writers: _write_non_orthogonal and _write_orthogonal           *)
(***************************************************************************)
\* The time stamp value exclude_missing_time_stamps removes
SENTINEL == -9999

\* One element of a (masked) float array: its number x, whether x is finite
\* (FALSE stands for NaN) and whether the element is masked
Elem(x) == [x |-> x, finite |-> TRUE, masked |-> FALSE]
NaNElem == [x |-> 0, finite |-> FALSE, masked |-> FALSE]
MaskedElem == [x |-> 0, finite |-> TRUE, masked |-> TRUE]

\* a[keep]: the elements of a at the positions in keep, in order
SelectAt(a, keep) ==
    LET F[i \in 0..Len(a)] ==
          IF i = 0 THEN <<>>
          ELSE IF i \in keep THEN Append(F[i - 1], a[i]) ELSE F[i - 1]
    IN F[Len(a)]

\* a[mask] for a boolean mask
BoolIndex(a, mask) == SelectAt(a, {p \in 1..Len(a) : mask[p]})

\* np.delete(a, ids) and DataFrame.drop(index=ids)
NpDelete(a, ids) == SelectAt(a, (1..Len(a)) \ ids)

\* m.flatten() of an array of shape [location][slot] (row-major)
Flatten(m) ==
    IF Len(m) = 0 THEN <<>>
    ELSE LET n_t == Len(m[1])
         IN [p \in 1..(Len(m) * n_t) |->
                m[((p - 1) \div n_t) + 1][((p - 1) % n_t) + 1]]

\* np.repeat(a, n_t)
NpRepeat(a, n_t) == [p \in 1..(Len(a) * n_t) |-> a[((p - 1) \div n_t) + 1]]

\* One element of valid_mask (lines 524-547)
ValidMask(e) ==
    IF resample
    THEN IF r_fill_values.kind # "None"
         THEN /\ IF r_fill_values.kind = "nan"
                 THEN e.finite
                 ELSE ~(e.finite /\ e.x = r_fill_values.x)
              /\ ~e.masked
         ELSE ~e.masked
    ELSE e.finite

\* np.where(a == -9999.)[0]
TimeId(a) == {p \in 1..Len(a) : a[p].finite /\ a[p].x = SENTINEL}

\* ---- the cell a Cell Writer is called with
\* Time stamp of a valid observation of location l in time slot s
ObsTime(l, s) == 50 * (l + s)

\* What the time variable holds where there is no observation: NaN without
\* resampling, and after resampling a masked element, NaN or the fill number
MissingKind ==
    IF ~resample THEN "nan"
    ELSE IF r_fill_values.kind = "None" THEN "masked"
    ELSE IF r_fill_values.kind = "nan" THEN "nan" ELSE "fill"

TimeKinds == {"obs", "sentinel", MissingKind}

TimeElem(kind, l, s) ==
    IF kind = "obs" THEN Elem(ObsTime(l, s))
    ELSE IF kind = "sentinel" THEN Elem(SENTINEL)
    ELSE IF kind = "nan" THEN NaNElem
    ELSE IF kind = "masked" THEN MaskedElem
    ELSE Elem(r_fill_values.x)

\* celldata["sm"] of the cell: measurements, the first of them possibly
\* the _FillValue of the product
SmArray(n_t, first_is_fill) ==
    [l \in 1..Len(cell_gpis) |->
        [s \in 1..n_t |-> IF first_is_fill /\ l = 1 /\ s = 1
                          THEN SENTINEL
                          ELSE PixelValue("sm", s, cell_gpis[l])]]

\* The cells of a target grid, as calc partitions them
CellsOf(grid) == Range(SplitByCell(grid.gpis, NpUniqueIndices(grid.cells)))

\* calc is inside parallel_process(FUNC, ITER_KWARGS) of a block
InWriteCells ==
    /\ entry = "Img2Ts"
    /\ imgbuffer = -1
    /\ ignore_errors = FALSE
    /\ n_proc = 1
    /\ target_grid = MkGrid(<<1, 2, 3>>, <<0, 0, 1>>)
    /\ overpass = "AM"
    /\ elements_per_folders = <<1>>
    /\ counter = 0
    /\ overpass_state_AM = TRUE
    /\ pc = "WriteCells"
    /\ orthogonal \in {PyTrue, PyFalse}
    /\ source = IF orthogonal = PyTrue THEN <<"ortho">> ELSE <<"ragged">>
    /\ timekey = IF orthogonal = PyTrue THEN None ELSE TimeKeyName
    /\ grid_refs = Detach(NewRefs(target_grid, target_grid), "calc")
    /\ global_attr = [time_coverage_end |-> "unknown"]
    /\ chunk = 1
    /\ pending = {}
    /\ results = <<>>
    /\ img_dict = <<>>
    /\ timestamps = <<>>
    /\ ITER_KWARGS = EmptyIterKwargs
    /\ to_write = {}
    /\ grid_saved = 1
    /\ reads = <<>>
    /\ yielded = <<>>
    /\ writes = <<>>

\* Entry into the Cell Writer calc selected, with the arguments of one cell
InitWrite ==
    /\ InWriteCells
    /\ ImgIdle
    /\ GridsEqual
    /\ resample \in BOOLEAN
    /\ r_fill_values \in {[kind |-> "None"], [kind |-> "nan"],
                          [kind |-> "num", x |-> -1]}
    /\ ~resample => r_fill_values.kind = "None"
    /\ exclude_missing_time_stamps \in BOOLEAN
    /\ cell_gpis \in CellsOf(target_grid)
    /\ \E n_t \in 1..MaxSlots :
         /\ cell_sm \in {SmArray(n_t, b) : b \in BOOLEAN}
         /\ IF WriterFunc = "_write_orthogonal"
            THEN cell_time = <<>>
            ELSE \E kinds \in [1..Len(cell_gpis) -> [1..n_t -> TimeKinds]] :
                   cell_time = [l \in 1..Len(cell_gpis) |->
                                  [s \in 1..n_t |-> TimeElem(kinds[l][s], l, s)]]
    /\ wpc = IF WriterFunc = "_write_orthogonal" THEN "Orthogonal" ELSE "Flatten"
    /\ gpi_time = <<>>
    /\ valid_mask = <<>>
    /\ celldata = [sm |-> <<>>]
    /\ gpis = <<>>
    /\ lons = <<>>
    /\ lats = <<>>
    /\ time_array = <<>>
    /\ attempts = 0
    /\ oserror = "none"
    /\ handed = {}

CellLons == [l \in DOMAIN cell_gpis |-> LonOf(cell_gpis[l])]
CellLats == [l \in DOMAIN cell_gpis |-> LatOf(cell_gpis[l])]

\* The OSErrors the archive library can raise on the cell file: the file is
\* in use by another process, or another cause (no space left, no
\* permission, a damaged file). "except OSError" catches them alike.
OSErrors == {"file in use", "other I/O error"}

\* n_loc=len(cell_gpis): the size of the location dimension the archive of
\* the cell is created with
DeclaredLocations == Len(cell_gpis)

\* except OSError: log, time.sleep(3), next iteration of "while True"
CountAttempt == IF attempts < MaxAttempts THEN attempts + 1 ELSE attempts

\* _write_non_orthogonal, lines 512-552: repeat the locations per time slot,
\* flatten, and keep the elements with a valid time stamp
FlattenCell ==
    /\ wpc = "Flatten"
    /\ LET n_t == Len(cell_time[1])
           gt  == Flatten(cell_time)
           vm  == [p \in DOMAIN gt |-> ValidMask(gt[p])]
       IN /\ gpi_time' = gt
          /\ valid_mask' = vm
          /\ celldata' = [sm |-> BoolIndex(Flatten(cell_sm), vm)]
          /\ gpis' = BoolIndex(NpRepeat(cell_gpis, n_t), vm)
          /\ lons' = BoolIndex(NpRepeat(CellLons, n_t), vm)
          /\ lats' = BoolIndex(NpRepeat(CellLats, n_t), vm)
    /\ wpc' = "Open"
    /\ UNCHANGED <<first_run, gridVars, imgVars, runVars, writerCfg, writerArgs, time_array, attempts, oserror, handed>>

\* lines 556-580: open the cell file for append and set its attributes; the
\* file may be in use (OSError)
OpenArchive ==
    /\ wpc = "Open"
    /\ \E out \in {"ok"} \cup OSErrors :
         /\ wpc' = IF out = "ok" THEN "Exclude" ELSE "Sleep"
         /\ oserror' = IF out = "ok" THEN oserror ELSE out
    /\ UNCHANGED <<first_run, gridVars, imgVars, runVars, writerCfg, writerArgs, writerLocals, attempts, handed>>

\* lines 587-597, inside the retry loop: drop the rows whose time stamp is
\* the sentinel. time_id is computed from gpi_time[valid_mask], which no
\* attempt changes, and applied to celldata, gpis, lons and lats, which
\* every attempt overwrites. DataFrame.drop raises KeyError for a label
\* that is not in the index.
ExcludeMissingTimeStamps ==
    /\ wpc = "Exclude"
    /\ LET gtv     == BoolIndex(gpi_time, valid_mask)
           time_id == TimeId(gtv)
       IN IF exclude_missing_time_stamps
          THEN IF time_id \subseteq 1..Len(celldata.sm)
               THEN /\ celldata' = [sm |-> NpDelete(celldata.sm, time_id)]
                    /\ gpis' = NpDelete(gpis, time_id)
                    /\ lons' = NpDelete(lons, time_id)
                    /\ lats' = NpDelete(lats, time_id)
                    /\ time_array' = NpDelete(gtv, time_id)
                    /\ wpc' = "Write"
               ELSE /\ wpc' = "Raised"
                    /\ UNCHANGED <<celldata, gpis, lons, lats, time_array>>
          ELSE /\ time_array' = gtv
               /\ wpc' = "Write"
               /\ UNCHANGED <<celldata, gpis, lons, lats>>
    /\ UNCHANGED <<first_run, gridVars, imgVars, runVars, writerCfg, writerArgs, gpi_time, valid_mask,
                   attempts, oserror, handed>>

\* What dataout.write can do with its arguments: store them, or fail on the
\* file (OSError); arrays of unequal length it may also reject.
ArchiveWriteOutcomes ==
    IF Len(gpis) = Len(time_array) /\ Len(celldata.sm) = Len(time_array)
    THEN {"ok"} \cup OSErrors
    ELSE {"ok", "DatasetError"} \cup OSErrors

\* lines 609-612: dataout.write(gpis, celldata, time_array, lon, lat)
WriteRecords ==
    /\ wpc = "Write"
    /\ handed' = handed \cup {[gpis |-> gpis, lons |-> lons, lats |-> lats,
                                time |-> time_array, sm |-> celldata.sm]}
    /\ \E out \in ArchiveWriteOutcomes :
         /\ wpc' = IF out = "ok" THEN "Close"
                   ELSE IF out \in OSErrors THEN "Sleep" ELSE "Raised"
         /\ oserror' = IF out \in OSErrors THEN out ELSE oserror
    /\ UNCHANGED <<first_run, gridVars, imgVars, runVars, writerCfg, writerArgs, writerLocals, attempts>>

\* line 616 and the end of the with block: break closes the file; a failing
\* close (OSError) is caught like any other
CloseArchive ==
    /\ wpc = "Close"
    /\ \E out \in {"ok"} \cup OSErrors :
         /\ wpc' = IF out = "ok" THEN "Returned" ELSE "Sleep"
         /\ oserror' = IF out = "ok" THEN oserror ELSE out
    /\ UNCHANGED <<first_run, gridVars, imgVars, runVars, writerCfg, writerArgs, writerLocals, attempts, handed>>

\* lines 617-620: log, sleep 3 seconds, and start the loop body again
SleepAndRetry ==
    /\ wpc = "Sleep"
    /\ attempts' = CountAttempt
    /\ wpc' = "Open"
    /\ UNCHANGED <<first_run, gridVars, imgVars, runVars, writerCfg, writerArgs, writerLocals, oserror, handed>>

\* _write_orthogonal, lines 446-481: one pass of its "while True" loop.
\* OSError before or inside write_all is caught and the pass repeated.
WriteOrthogonal ==
    /\ wpc = "Orthogonal"
    /\ \E out \in {"ok", "OSError at open", "OSError at write"}, err \in OSErrors :
         /\ oserror' = IF out = "ok" THEN oserror ELSE err
         /\ handed' = IF out = "OSError at open" THEN handed
                       ELSE handed \cup
                                   {[gpis |-> cell_gpis, lons |-> CellLons,
                                     lats |-> CellLats,
                                     time |-> [s \in DOMAIN cell_sm[1] |-> s],
                                     sm |-> cell_sm]}
         /\ wpc' = IF out = "ok" THEN "Returned" ELSE "Orthogonal"
         /\ attempts' = IF out = "ok" THEN attempts ELSE CountAttempt
    /\ UNCHANGED <<first_run, gridVars, imgVars, runVars, writerCfg, writerArgs, writerLocals>>

NextWrite ==
    \/ FlattenCell
    \/ OpenArchive
    \/ ExcludeMissingTimeStamps
    \/ WriteRecords
    \/ CloseArchive
    \/ SleepAndRetry
    \/ WriteOrthogonal

SpecWrite == InitWrite /\ [][NextWrite]_vars

\* The thread running the Cell Writer keeps running
FairSpecWrite == SpecWrite /\ WF_vars(NextWrite)

(***************************************************************************)
(* SPL3SMP_Img.read and the module functions of smap_io.interface          *)
(***************************************************************************)
MaxCalls == 3

\* self.parameters of the reader
ImgParameters == <<"sm", TimeKeyName>>

\* The names the module functions are called with: the two module globals,
\* and a name that is no module-level global
CounterName == "counter"
ToggleName == "overpass_state_AM"
NoGlobalName == "no_such_global"

\* globals() of smap_io.interface, as far as the functions change it
Globals == [counter |-> counter, overpass_state_AM |-> overpass_state_AM]

\* Samples a data set of a file may hold
RawValues == {Elem(-1), Elem(0), Elem(2), Elem(3), NaNElem}

\* The files a reader is opened on: not openable, or holding the retrieval
\* groups `groups`, each with one 2-d data set (rows x 1 column) per
\* parameter, whose attributes declare _FillValue, valid_min and valid_max
\* or do not
H5Files ==
    {[openable |-> FALSE]}
    \cup
    {[openable |-> TRUE, groups |-> g, declared |-> d, base |-> <<<<a>>, <<b>>>>,
      fill |-> SENTINEL, valid_min |-> 0, valid_max |-> 2] :
        g \in SUBSET {"AM", "PM"}, d \in BOOLEAN, a \in RawValues, b \in RawValues}

\* param[:] of parameter number k in the group of overpass op
RawArray(op, k) ==
    LET shift(e) == IF e.finite THEN Elem(e.x + (k - 1)) ELSE e
        rows == IF op = "PM"
                THEN [r \in DOMAIN h5file.base |-> h5file.base[Len(h5file.base) + 1 - r]]
                ELSE h5file.base
    IN [r \in DOMAIN rows |-> [c \in DOMAIN rows[r] |-> shift(rows[r][c])]]

\* np.flipud(a)
Flipud(a) == [r \in DOMAIN a |-> a[Len(a) + 1 - r]]

\* The masking without the test against valid_max
MaskOutOfRange_BelowOnly(data) ==
    IF ~h5file.declared THEN data
    ELSE [i \in DOMAIN data |->
            IF data[i].finite /\ data[i].x < h5file.valid_min
            THEN Elem(h5file.fill)
            ELSE data[i]]

\* lines 199-207 and 250-258: np.where(np.logical_or(data < valid_min,
\* data > valid_max), fill_value, data), skipped when an attribute is missing
\* (KeyError). A comparison with NaN is False.
MaskOutOfRange(data) ==
    IF ~h5file.declared THEN data
    ELSE [i \in DOMAIN data |->
            IF data[i].finite /\ (data[i].x < h5file.valid_min \/ data[i].x > h5file.valid_max)
            THEN Elem(h5file.fill)
            ELSE data[i]]

\* lines 192-207: the samples of parameter k of overpass op, as read returns them
ReadParameter(op, k) ==
    LET data == Flatten(Flipud(RawArray(op, k)))
    IN MaskOutOfRange([i \in DOMAIN img_gpis |-> data[img_gpis[i] + 1]])

\* lines 157-171: self.overpass after the look-up of the groups of the file
ResolvedOverpass ==
    IF img_overpass = None /\ h5file.openable /\ Cardinality(h5file.groups) = 1
    THEN CHOOSE g \in h5file.groups : TRUE
    ELSE img_overpass

\* lines 173-178 and 230: the overpass whose group is read
SelectedOp ==
    IF ResolvedOverpass = "BOTH"
    THEN IF overpass_state_AM THEN "AM" ELSE "PM"
    ELSE ResolvedOverpass

\* The exceptions of read without the test for several overpass groups
ReadRaises_NoAmbiguityTest ==
    IF ~h5file.openable THEN [type |-> "IOError", msg |-> "can not be opened"]
    ELSE IF img_overpass = None /\ h5file.groups = {}
         THEN [type |-> "IndexError", msg |-> "list index out of range"]
    ELSE IF SelectedOp \notin h5file.groups
         THEN [type |-> "NameError", msg |-> "Field does not exists"]
    ELSE IF ResolvedOverpass = "BOTH" /\ ~var_overpass_str
         THEN [type |-> "KeyError", msg |-> "sm_am"]
    ELSE [type |-> "None"]

\* The exception SPL3SMP_Img.read raises; type "None" when it returns
ReadRaises ==
    IF ~h5file.openable THEN [type |-> "IOError", msg |-> "can not be opened"]
    ELSE IF img_overpass = None /\ Cardinality(h5file.groups) > 1
         THEN [type |-> "IOError", msg |-> "Multiple overpasses found in file"]
    ELSE IF img_overpass = None /\ h5file.groups = {}
         THEN [type |-> "IndexError", msg |-> "list index out of range"]
    ELSE IF SelectedOp \notin h5file.groups
         THEN [type |-> "NameError", msg |-> "Field does not exists"]
    ELSE IF ResolvedOverpass = "BOTH" /\ ~var_overpass_str
         THEN [type |-> "KeyError", msg |-> "sm_am"]
    ELSE [type |-> "None"]

\* The name read gives to parameter k (lines 213-222, 264-281, 291-317);
\* a name is the pair of the parameter and its suffix
RetParamName(k) ==
    IF ResolvedOverpass = "BOTH" \/ ~var_overpass_str
    THEN <<ImgParameters[k], "">>
    ELSE IF ImgParameters[k] = TimeKeyName
         THEN <<ImgParameters[k], "">>
         ELSE <<ImgParameters[k], IF SelectedOp = "PM" THEN "_pm" ELSE "_am">>

\* return_data of a read that does not raise
ReturnData ==
    LET names == {RetParamName(k) : k \in DOMAIN ImgParameters}
        nameidx(n) == CHOOSE k \in DOMAIN ImgParameters : RetParamName(k) = n
        both == IF ResolvedOverpass = "BOTH" THEN {<<"Overpass", "">>} ELSE {}
    IN [n \in names \cup both |->
          IF n = <<"Overpass", "">>
          THEN [i \in DOMAIN img_gpis |-> Elem(IF SelectedOp = "AM" THEN 1 ELSE 2)]
          ELSE ReadParameter(SelectedOp, nameidx(n))]

\* lines 285-290, reached by a read with overpass BOTH whose group exists
ReadCountsItself ==
    /\ ResolvedOverpass = "BOTH"
    /\ ReadRaises.type \in {"None", "KeyError"}

\* SPL3SMP_Img.read(timestamp) with flatten=True
ImgRead ==
    /\ Len(calls) < MaxCalls
    /\ img_overpass' = ResolvedOverpass
    /\ IF ReadCountsItself
       THEN /\ counter' = counter + 1
            /\ overpass_state_AM' = IF counter > 0 THEN ~overpass_state_AM
                                    ELSE overpass_state_AM
       ELSE UNCHANGED moduleVars
    /\ calls' = Append(calls,
          [fn |-> "read", arg |-> SelectedOp, before |-> Globals,
           after |-> [counter |-> counter', overpass_state_AM |-> overpass_state_AM'],
           ret |-> IF ReadRaises.type = "None"
                   THEN [type |-> "Image", data |-> ReturnData, timekey |-> TimeKeyName]
                   ELSE ReadRaises])
    /\ UNCHANGED <<h5file, var_overpass_str, img_gpis, readers>>
    /\ UNCHANGED <<first_run, gridVars, writerVars, cfgVars, pc, selfVars, bulkVars, calcVars, histVars>>

\* A function that clears the flag instead of negating it
OverpassChange_Clears(var_name) ==
    /\ Len(calls) < MaxCalls
    /\ overpass_state_AM' = IF var_name = ToggleName THEN FALSE
                            ELSE overpass_state_AM
    /\ calls' = Append(calls,
          [fn |-> "overpass_change", arg |-> var_name, before |-> Globals,
           after |-> [counter |-> counter, overpass_state_AM |-> overpass_state_AM'],
           ret |-> IF var_name \in DOMAIN Globals THEN [type |-> "None"]
                   ELSE [type |-> "NameError", msg |-> "is not defined"]])
    /\ UNCHANGED <<counter, h5file, img_overpass, var_overpass_str, img_gpis, readers>>
    /\ UNCHANGED <<first_run, gridVars, writerVars, cfgVars, pc, selfVars, bulkVars, calcVars, histVars>>

\* overpass_change(var_name), lines 59-63
OverpassChange(var_name) ==
    /\ Len(calls) < MaxCalls
    /\ overpass_state_AM' = IF var_name = ToggleName THEN ~overpass_state_AM
                            ELSE overpass_state_AM
    /\ calls' = Append(calls,
          [fn |-> "overpass_change", arg |-> var_name, before |-> Globals,
           after |-> [counter |-> counter, overpass_state_AM |-> overpass_state_AM'],
           ret |-> IF var_name \in DOMAIN Globals THEN [type |-> "None"]
                   ELSE [type |-> "NameError", msg |-> "is not defined"]])
    /\ UNCHANGED <<counter, h5file, img_overpass, var_overpass_str, img_gpis, readers>>
    /\ UNCHANGED <<first_run, gridVars, writerVars, cfgVars, pc, selfVars, bulkVars, calcVars, histVars>>

\* increment_counter(var_name), lines 53-55
IncrementCounter(var_name) ==
    /\ Len(calls) < MaxCalls
    /\ counter' = IF var_name = CounterName THEN counter + 1 ELSE counter
    /\ calls' = Append(calls,
          [fn |-> "increment_counter", arg |-> var_name, before |-> Globals,
           after |-> [counter |-> counter', overpass_state_AM |-> overpass_state_AM],
           ret |-> [type |-> "None"]])
    /\ UNCHANGED <<overpass_state_AM, h5file, img_overpass, var_overpass_str, img_gpis, readers>>
    /\ UNCHANGED <<first_run, gridVars, writerVars, cfgVars, pc, selfVars, bulkVars, calcVars, histVars>>

\* A freshly imported module and one reader; no run of Img2Ts is going on
InitImg ==
    /\ InWriteCells
    /\ GridsEqual
    /\ orthogonal = PyFalse
    /\ WriterIdle
    /\ h5file \in H5Files
    /\ img_overpass \in {"AM", "PM", "BOTH", None}
    /\ var_overpass_str \in BOOLEAN
    /\ img_gpis \in {<<0, 1>>, <<1>>}
    /\ calls = <<>>
    /\ readers = NoReaders

NextImg ==
    \/ ImgRead
    \/ \E var_name \in {ToggleName, NoGlobalName} : OverpassChange(var_name)
    \/ \E var_name \in {CounterName, NoGlobalName} : IncrementCounter(var_name)

SpecImg == InitImg /\ [][NextImg]_vars

(***************************************************************************)
(* Input grid and target grid: Img2Ts.__init__ and Img2Ts._read_image      *)
(***************************************************************************)
MaxPoints == 3

\* Sequences over S without repetition
InjectiveSeqs(S) ==
    {q \in UNION {[1..n -> S] : n \in 1..Cardinality(S)} :
        \A i, j \in DOMAIN q : i # j => q[i] # q[j]}

\* The grids of up to MaxPoints points: any order of the gpis, any assignment
\* of the locations to them, one cell
PointGrids ==
    UNION {{[gpis  |-> g,
             cells |-> [i \in DOMAIN g |-> 0],
             lons  |-> [i \in DOMAIN g |-> LonOf(l[i])],
             lats  |-> [i \in DOMAIN g |-> LatOf(l[i])]] :
                l \in {q \in InjectiveSeqs(1..MaxPoints) : Len(q) = Len(g)}} :
           g \in InjectiveSeqs(1..MaxPoints)}

\* Position in grid of the point at the location of point i of other, or 0
SameLocation(grid, other, i) ==
    IF \E p \in DOMAIN grid.gpis :
          grid.lons[p] = other.lons[i] /\ grid.lats[p] = other.lats[i]
    THEN CHOOSE p \in DOMAIN grid.gpis :
          grid.lons[p] = other.lons[i] /\ grid.lats[p] = other.lats[i]
    ELSE 0

\* is_subset_grid(grid, other, compare_index): every point of other has
\* distance 0 to its nearest point of grid, and (compare_index) the gpis of
\* these nearest points are other.activegpis
is_subset_grid(grid, other, compare_index) ==
    IF \E i \in DOMAIN other.gpis : SameLocation(grid, other, i) = 0
    THEN FALSE
    ELSE compare_index =>
            [i \in DOMAIN other.gpis |-> grid.gpis[SameLocation(grid, other, i)]]
                = other.gpis

\* Img2Ts.__init__, lines 237-247: self.resample
ResampleOf(in_grid, out_grid) ==
    IF in_grid = out_grid THEN FALSE
    ELSE IF is_subset_grid(in_grid, out_grid, TRUE) THEN FALSE
    ELSE TRUE

\* The image imgin.read returns on the input grid
ImageOnInputGrid ==
    [tag |-> "read",
     lons |-> input_grid.lons, lats |-> input_grid.lats,
     data |-> [v \in Variables |->
                 [p \in DOMAIN input_grid.gpis |-> PixelValue(v, 1, input_grid.gpis[p])]]]

\* resamp.resample_to_grid with nearest neighbour: the value of the input
\* point at the location, or a value of no input point (0) where the
\* result is interpolated or filled
ResampleToGrid(data) ==
    [v \in Variables |->
        [p \in DOMAIN target_grid.gpis |->
            IF SameLocation(input_grid, target_grid, p) = 0 THEN 0
            ELSE data[v][SameLocation(input_grid, target_grid, p)]]]

\* np.where(np.isin(input_grid.activegpis, target_grid.activegpis))
IsinIdx == {p \in DOMAIN input_grid.gpis : input_grid.gpis[p] \in Range(target_grid.gpis)}

\* _read_image, lines 345-385: resampling, sub-setting, or the image as it is
ReadImageGrids ==
    /\ grid_image.tag = "read"
    /\ grid_image' =
         IF resample
         THEN [tag |-> "resampled",
               lons |-> target_grid.lons, lats |-> target_grid.lats,
               data |-> ResampleToGrid(grid_image.data)]
         ELSE IF Len(target_grid.gpis) # Len(input_grid.gpis)
         THEN [tag |-> "subset",
               lons |-> target_grid.lons, lats |-> target_grid.lats,
               data |-> [v \in Variables |-> SelectAt(grid_image.data[v], IsinIdx)]]
         ELSE [grid_image EXCEPT !.tag = "as_is"]
    /\ UNCHANGED <<first_run, input_grid, imgVars, runVars, writerVars>>

\* An Img2Ts constructed with an input grid and a target grid, and the
\* first image read
InitGrids ==
    /\ entry = "Img2Ts"
    /\ imgbuffer = -1
    /\ ignore_errors = FALSE
    /\ n_proc = 1
    /\ overpass = "AM"
    /\ elements_per_folders = <<1>>
    /\ counter = 0
    /\ overpass_state_AM = TRUE
    /\ pc = "ReadBlock"
    /\ orthogonal = None
    /\ source = <<"ortho">>
    /\ timekey = None
    /\ global_attr = None
    /\ chunk = 1
    /\ pending = {1}
    /\ results = <<>>
    /\ img_dict = <<>>
    /\ timestamps = <<>>
    /\ ITER_KWARGS = EmptyIterKwargs
    /\ to_write = {}
    /\ grid_saved = 1
    /\ reads = <<>>
    /\ yielded = <<>>
    /\ writes = <<>>
    /\ ImgIdle
    /\ wpc = "idle"
    /\ r_fill_values = [kind |-> "None"]
    /\ exclude_missing_time_stamps = TRUE
    /\ cell_gpis = <<>>
    /\ cell_time = <<>>
    /\ cell_sm = <<>>
    /\ gpi_time = <<>>
    /\ valid_mask = <<>>
    /\ celldata = [sm |-> <<>>]
    /\ gpis = <<>>
    /\ lons = <<>>
    /\ lats = <<>>
    /\ time_array = <<>>
    /\ attempts = 0
    /\ oserror = "none"
    /\ handed = {}
    /\ first_run = [tag |-> "none"]
    /\ input_grid \in PointGrids
    /\ target_grid \in PointGrids
    /\ grid_image = ImageOnInputGrid
    /\ resample = ResampleOf(input_grid, target_grid)
    /\ grid_refs = Detach(NewRefs(target_grid, input_grid), "img_bulk")

SpecGrids == InitGrids /\ [][ReadImageGrids]_vars

(***************************************************************************)
(* Reads with overpass BOTH that run side by side: the threads of          *)
(* parallel_process in img_bulk (n_proc > 1), or two readers in one        *)
(* process. They share the globals of smap_io.interface.                   *)
(***************************************************************************)
\* The dates given to the two readers, in the order each one reads them:
\* two threads with the two requests of one day, or of two days; two reader
\* instances with a day each; and one reader alone
ReaderLoads ==
    {<< <<1>>, <<1>> >>,
     << <<1, 2>>, <<1, 2>> >>,
     << <<1, 1>>, <<2, 2>> >>,
     << <<1, 1>>, <<>> >>}

InitReaders ==
    /\ InWriteCells
    /\ GridsEqual
    /\ orthogonal = PyFalse
    /\ WriterIdle
    /\ h5file = [openable |-> TRUE, groups |-> {"AM", "PM"}, declared |-> TRUE,
                 base |-> <<<<Elem(0)>>, <<Elem(2)>>>>,
                 fill |-> SENTINEL, valid_min |-> 0, valid_max |-> 2]
    /\ img_overpass = "BOTH"
    /\ var_overpass_str = TRUE
    /\ img_gpis = <<0, 1>>
    /\ calls = <<>>
    /\ \E load \in ReaderLoads :
         readers = [started |-> FALSE,
                    todo    |-> load,
                    at      |-> [w \in DOMAIN load |-> "idle"],
                    op      |-> [w \in DOMAIN load |-> None],
                    got     |-> <<>>]

\* reshuffle(), line 90: the metadata read of the start date, before any
\* other read; it is the first read of the process and only counts itself
MetadataRead ==
    /\ ~readers.started
    /\ readers' = [readers EXCEPT !.started = TRUE]
    /\ counter' = counter + 1
    /\ overpass_state_AM' = IF counter > 0 THEN ~overpass_state_AM
                            ELSE overpass_state_AM
    /\ UNCHANGED <<h5file, img_overpass, var_overpass_str, img_gpis, calls>>
    /\ UNCHANGED <<first_run, gridVars, writerVars, cfgVars, pc, selfVars, bulkVars, calcVars, histVars>>

\* read(), lines 173-178: reader w enters read for its next date and picks
\* its overpass from the module global
SelectOverpass(w) ==
    /\ readers.started
    /\ readers.at[w] = "idle"
    /\ readers.todo[w] # <<>>
    /\ readers' = [readers EXCEPT !.at[w] = "reading",
                                  !.op[w] = IF overpass_state_AM THEN "AM" ELSE "PM"]
    /\ UNCHANGED <<counter, overpass_state_AM, h5file, img_overpass, var_overpass_str, img_gpis, calls>>
    /\ UNCHANGED <<first_run, gridVars, writerVars, cfgVars, pc, selfVars, bulkVars, calcVars, histVars>>

\* read(), lines 285-347: reader w has read the group of its overpass; it
\* counts the read, flips the module global and returns the image
CountAndReturn(w) ==
    /\ readers.at[w] = "reading"
    /\ counter' = counter + 1
    /\ overpass_state_AM' = IF counter > 0 THEN ~overpass_state_AM
                            ELSE overpass_state_AM
    /\ readers' = [readers EXCEPT
                      !.at[w] = "idle",
                      !.todo[w] = Tail(readers.todo[w]),
                      !.got = Append(readers.got,
                                     [reader |-> w, date |-> Head(readers.todo[w]),
                                      op |-> readers.op[w]])]
    /\ UNCHANGED <<h5file, img_overpass, var_overpass_str, img_gpis, calls>>
    /\ UNCHANGED <<first_run, gridVars, writerVars, cfgVars, pc, selfVars, bulkVars, calcVars, histVars>>

NextReaders ==
    \/ MetadataRead
    \/ \E w \in 1..2 : SelectOverpass(w)
    \/ \E w \in 1..2 : CountAndReturn(w)

SpecReaders == InitReaders /\ [][NextReaders]_vars

(***************************************************************************)
(* Properties of the run                                                   *)
(***************************************************************************)
\* index of grid point g on the location axis of the target grid
IndexOfGpi(g) == CHOOSE p \in DOMAIN target_grid.gpis : target_grid.gpis[p] = g

RECURSIVE SumLen(_)
SumLen(groups) ==
    IF groups = <<>> THEN 0 ELSE Len(Head(groups)) + SumLen(Tail(groups))

\* C1: within one run, no yielded block (and no two yielded blocks) stacks
\* images of both conventions: every successfully read image that
\* contradicts the mode of the first one was rejected by _read_image, also
\* when it was read in the same block as the first image.
C1_OneLayoutPerRun ==
    \A b1, b2 \in DOMAIN yielded :
        \A i \in DOMAIN yielded[b1].timekeys, j \in DOMAIN yielded[b2].timekeys :
            yielded[b1].timekeys[i] = yielded[b2].timekeys[j]

\* C2: in every yielded block the timestamps are non-decreasing and row r of
\* every variable's stack is the image whose timestamp is timestamps[r],
\* for every n_proc and every completion order of the reads.
C2_BlockSortedAndAligned ==
    /\ \A r \in 1..(Len(timestamps) - 1) : timestamps[r] <= timestamps[r + 1]
    /\ \A v \in DOMAIN img_dict :
         /\ Len(img_dict[v]) = Len(timestamps)
         /\ \A r \in DOMAIN img_dict[v] : \A p \in DOMAIN img_dict[v][r] :
              DateOfCode(ReqOfValue(img_dict[v][r][p])) = timestamps[r]

\* C2 witness: a block of two or more images whose reads completed out of
\* date order under n_proc > 1 has been yielded.
C2_Witness ==
    /\ pc = "PartitionByCell"
    /\ n_proc > 1
    /\ Len(timestamps) >= 2
    /\ \E k \in 1..(Len(reads) - 1) : reads[k] > reads[k + 1]

\* C3: for every block and for a cell-sorted as well as a non-cell-sorted
\* target grid, the per-cell location-id groups handed to the Cell Writer
\* are pairwise disjoint, their union is the grid's active location set, and
\* the per-cell counts add up to the number of active locations.
C3_LocationConservation ==
    pc = "WriteCells" =>
        LET groups == ITER_KWARGS.cell_gpis IN
        /\ Len(groups) = Len(ITER_KWARGS.cell)
        /\ \A k1, k2 \in DOMAIN groups :
             k1 # k2 => Range(groups[k1]) \cap Range(groups[k2]) = {}
        /\ UNION {Range(groups[k]) : k \in DOMAIN groups} = Range(target_grid.gpis)
        /\ SumLen(groups) = Len(target_grid.gpis)

\* C3 witness: the cells of a grid that is not cell-sorted are being written.
C3_Witness ==
    /\ pc = "WriteCells"
    /\ ~CellsSorted(target_grid.cells)
    /\ Len(ITER_KWARGS.cell) >= 2
    /\ writes # <<>>

ScenarioA ==
    /\ entry = "Img2Ts"
    /\ imgbuffer = 1
    /\ ignore_errors
    /\ Len(source) = 3
    /\ source[2] = "ioerror"
    /\ source[1] \in {"ortho", "ragged"}
    /\ source[3] = source[1]
    /\ Requests = <<1, 2, 3>>

\* C5 as claimed: in scenario A img_bulk yields exactly two blocks of one
\* timestamp each (day 1, then day 3) and the run does not raise.
C5_TwoBlocks ==
    ScenarioA =>
        /\ pc # "Raised"
        /\ pc = "Done" =>
             [b \in DOMAIN yielded |-> yielded[b].timestamps] = << <<1>>, <<3>> >>

\* C5 amended: in scenario A img_bulk yields exactly three blocks, day 1, an
\* empty block in the place of day 2, and day 3; day 2 is in no block and
\* the run does not raise.
C5_ThreeBlocksOneEmpty ==
    ScenarioA =>
        /\ pc # "Raised"
        /\ \A b \in DOMAIN yielded : 2 \notin Range(yielded[b].timestamps)
        /\ pc = "Done" =>
             [b \in DOMAIN yielded |-> yielded[b].timestamps] =
                 << <<1>>, <<>>, <<3>> >>

\* C5 witness: the run of scenario A is complete.
C5_Witness == ScenarioA /\ pc = "Done"

\* C6: a reshuffle run with one missing or unreadable date, the start date
\* included, does not fail; that date is absent from the output and every
\* other date is in it.
C6_MissingDateIsSkipped ==
    ( /\ entry = "reshuffle"
      /\ Cardinality({d \in DOMAIN source : source[d] = "ioerror"}) = 1
      /\ \A d \in DOMAIN source : source[d] \in {"ioerror", "ortho", "ragged"} )
    =>
        /\ pc # "Raised"
        /\ pc = "Done" =>
             UNION {Range(yielded[b].timestamps) : b \in DOMAIN yielded} =
                 {d \in DOMAIN source : source[d] # "ioerror"}

\* C10: calc follows Idle -> GridPersisted -> {ReadBlock -> PartitionByCell
\* -> WriteCells}* -> Done.  The grid is saved exactly once, before the first
\* image is read; a cell write of block k happens only when block k has been
\* read completely, yielded and partitioned; Done is reached only when all
\* requested timestamps have been consumed.
C10_Transitions ==
    { <<"Reshuffle", "Idle">>, <<"Reshuffle", "Raised">>,
      <<"Idle", "GridPersisted">>,
      <<"GridPersisted", "ReadBlock">>, <<"GridPersisted", "Done">>,
      <<"GridPersisted", "Raised">>,
      <<"ReadBlock", "PartitionByCell">>, <<"ReadBlock", "Raised">>,
      <<"PartitionByCell", "WriteCells">>,
      <<"WriteCells", "ReadBlock">>, <<"WriteCells", "Done">>,
      <<"WriteCells", "Raised">> }

C10_StateInv ==
    /\ grid_saved <= 1
    /\ pc \in {"GridPersisted", "ReadBlock", "PartitionByCell", "WriteCells", "Done"}
          => grid_saved = 1
    /\ (reads # <<>> \/ writes # <<>>) => grid_saved = 1
    /\ \A w \in DOMAIN writes : writes[w].blk <= Len(yielded)
    /\ pc = "Done" =>
          /\ chunk = Len(Chunks)
          /\ Len(yielded) = Len(Chunks)
          /\ Range(reads) = DOMAIN Requests

C10_Step ==
    /\ pc' # pc => <<pc, pc'>> \in C10_Transitions
    /\ reads' # reads => pc = "ReadBlock" /\ grid_saved = 1
    /\ writes' # writes =>
          /\ pc = "WriteCells"
          /\ pending = {}
          /\ Len(yielded) = chunk
          /\ Range(Chunks[chunk]) \subseteq Range(reads)
          /\ writes'[Len(writes')].blk = chunk
          /\ writes'[Len(writes')].cell \in Range(ITER_KWARGS.cell)

C10_RunStateMachine == [][C10_Step]_runVars /\ []C10_StateInv

\* C10 witness: a run of two or more blocks with cell writes is Done.
C10_Witness == pc = "Done" /\ Len(yielded) >= 2 /\ Len(writes) >= 2

(***************************************************************************)
(* Properties of the Cell Writers (SpecWrite, FairSpecWrite)               *)
(***************************************************************************)
RaggedWithExclusion ==
    WriterFunc = "_write_non_orthogonal" /\ exclude_missing_time_stamps

\* The flat positions of the cell whose time stamp is valid (not NaN, not
\* masked, not the configured fill number) and not the sentinel
KeptPositions ==
    LET gt == Flatten(cell_time)
    IN {p \in 1..Len(gt) :
          /\ gt[p].finite
          /\ ~gt[p].masked
          /\ ~(resample /\ r_fill_values.kind = "num" /\ gt[p].x = r_fill_values.x)
          /\ gt[p].x # SENTINEL}

ExpectedRecords ==
    LET n_t == Len(cell_time[1])
    IN [gpis |-> SelectAt(NpRepeat(cell_gpis, n_t), KeptPositions),
        lons |-> SelectAt(NpRepeat(CellLons, n_t), KeptPositions),
        lats |-> SelectAt(NpRepeat(CellLats, n_t), KeptPositions),
        time |-> SelectAt(Flatten(cell_time), KeptPositions),
        sm   |-> SelectAt(Flatten(cell_sm), KeptPositions)]

\* C7: in ragged mode with sentinel exclusion enabled, the records that
\* _write_non_orthogonal hands to the archive are exactly the (location,
\* time slot) entries of the cell whose time stamp is valid and not the
\* sentinel, whatever their science values are.
C7_HandsExactlyTheValidRecords ==
    RaggedWithExclusion =>
        \A h \in handed : h = ExpectedRecords

\* C8: a per-cell write whose file stays unavailable is retried a bounded
\* number of times and then fails, so every call of a Cell Writer ends: it
\* returns or it raises.
C8_WriteCallTerminates == <>(wpc \in {"Returned", "Raised"})

\* What an attempt that meets no OSError hands to the archive
FirstAttemptRecords ==
    LET n_t == Len(cell_time[1])
        gt  == Flatten(cell_time)
        vm  == [p \in DOMAIN gt |-> ValidMask(gt[p])]
        gtv == BoolIndex(gt, vm)
        ids == IF exclude_missing_time_stamps THEN TimeId(gtv) ELSE {}
    IN [gpis |-> NpDelete(BoolIndex(NpRepeat(cell_gpis, n_t), vm), ids),
        lons |-> NpDelete(BoolIndex(NpRepeat(CellLons, n_t), vm), ids),
        lats |-> NpDelete(BoolIndex(NpRepeat(CellLats, n_t), vm), ids),
        time |-> NpDelete(gtv, ids),
        sm   |-> NpDelete(BoolIndex(Flatten(cell_sm), vm), ids)]

\* C9: with sentinel exclusion enabled, an attempt of _write_non_orthogonal
\* that follows an OSError (at open, during write or at close) is not
\* aborted by the retry and writes the same records, pairwise aligned and of
\* equal length, as a write that succeeds on the first attempt.
C9_RetryWritesTheSameRecords ==
    (RaggedWithExclusion /\ attempts > 0) =>
        /\ wpc # "Raised"
        /\ \A h \in handed :
              /\ h = FirstAttemptRecords
              /\ Len(h.gpis) = Len(h.time)

(***************************************************************************)
(* Properties of the requested timestamps and the overpasses (Spec)        *)
(***************************************************************************)
\* C11: no block yielded by img_bulk holds two images with the same
\* timestamp, for every overpass setting and every multiplier in
\* elements_per_folders.
C11_NoDuplicateTimestamps ==
    \A b \in DOMAIN yielded :
        \A i, j \in DOMAIN yielded[b].timestamps :
            i # j => yielded[b].timestamps[i] # yielded[b].timestamps[j]

(***************************************************************************)
(* Properties of SPL3SMP_Img.read and the module functions (SpecImg)       *)
(***************************************************************************)
\* The calls of read that returned an Image
ImageReads == {c \in DOMAIN calls : calls[c].fn = "read" /\ calls[c].ret.type = "Image"}

\* The raw value, in the file, of the sample a read of overpass op returns at
\* position i for parameter number k: the image is stored top row first and
\* the grid counts its points from the bottom row
RawSample(op, k, i) ==
    LET rows == RawArray(op, k)
    IN rows[Len(rows) - img_gpis[i]][1]

ParamIndex(name) == CHOOSE k \in DOMAIN ImgParameters : ImgParameters[k] = name[1]

\* C12: every sample of every variable SPL3SMP_Img.read returns, whose
\* parameter declares _FillValue, valid_min and valid_max, is the declared
\* fill value if its raw value is below valid_min or above valid_max, and
\* the raw value otherwise.
C12_OutOfRangeBecomesFill ==
    \A c \in ImageReads :
        \A name \in DOMAIN calls[c].ret.data :
            (name[1] # "Overpass" /\ h5file.declared) =>
                \A i \in DOMAIN img_gpis :
                    LET raw == RawSample(calls[c].arg, ParamIndex(name), i)
                        out == calls[c].ret.data[name][i]
                    IN IF raw.finite /\ (raw.x < h5file.valid_min \/ raw.x > h5file.valid_max)
                       THEN out = Elem(h5file.fill)
                       ELSE out = raw

\* A read returned a variable with a sample below the range, one above it,
\* and the time parameter with a sample inside the range
C12_Witness ==
    \E c \in ImageReads :
        /\ h5file.declared
        /\ Len(img_gpis) = 2
        /\ \E name \in DOMAIN calls[c].ret.data :
              /\ name[1] = "sm"
              /\ RawSample(calls[c].arg, 1, 1).finite
              /\ RawSample(calls[c].arg, 1, 1).x > h5file.valid_max
              /\ RawSample(calls[c].arg, 1, 2).finite
              /\ RawSample(calls[c].arg, 1, 2).x < h5file.valid_min
              /\ calls[c].ret.data[name] = <<Elem(h5file.fill), Elem(h5file.fill)>>
        /\ \E name \in DOMAIN calls[c].ret.data :
              /\ name[1] = TimeKeyName
              /\ calls[c].ret.data[name][2] = Elem(0)

\* The calls of read
Reads == {c \in DOMAIN calls : calls[c].fn = "read"}

\* C16: SPL3SMP_Img.read returns no Image and raises an IOError when the
\* file cannot be opened, a NameError when the group of the selected
\* overpass is not in the file, and an IOError "Multiple overpasses found in
\* file" when overpass is None and the file holds more than one group.
C16_ReadRaises ==
    \A c \in Reads :
        /\ ~h5file.openable => calls[c].ret.type = "IOError"
        /\ (h5file.openable /\ calls[c].arg \in {"AM", "PM"}
                /\ calls[c].arg \notin h5file.groups) =>
              /\ calls[c].ret.type = "NameError"
              /\ calls[c].ret.msg = "Field does not exists"
        /\ (h5file.openable /\ img_overpass = None
                /\ Cardinality(h5file.groups) > 1) =>
              /\ calls[c].ret.type = "IOError"
              /\ calls[c].ret.msg = "Multiple overpasses found in file"

\* A reader with overpass None was called on a file with the AM and the PM
\* group and raised, and the module globals are as before
C16_Witness ==
    /\ Len(calls) = 1
    /\ calls[1].fn = "read"
    /\ img_overpass = None
    /\ h5file.openable
    /\ h5file.groups = {"AM", "PM"}
    /\ calls[1].ret.type = "IOError"
    /\ calls[1].after = calls[1].before

\* The calls overpass_change(var_name)
OverpassChanges(var_name) ==
    {c \in DOMAIN calls : calls[c].fn = "overpass_change" /\ calls[c].arg = var_name}

\* C17: overpass_change(name) negates the module-level boolean called name
\* and changes nothing else; two calls in a row restore the value (from the
\* initial overpass_state_AM = True: False after one call, True after two).
\* With a name that is no module global it raises NameError and the module
\* state stays as it was.
C17_OverpassChangeIsAnInvolution ==
    /\ \A c \in OverpassChanges(ToggleName) :
          /\ calls[c].ret.type = "None"
          /\ calls[c].after.overpass_state_AM = ~calls[c].before.overpass_state_AM
          /\ calls[c].after.counter = calls[c].before.counter
          /\ (c + 1) \in OverpassChanges(ToggleName) =>
                calls[c + 1].after = calls[c].before
    /\ 1 \in OverpassChanges(ToggleName) =>
          /\ calls[1].before.overpass_state_AM
          /\ ~calls[1].after.overpass_state_AM
          /\ 2 \in OverpassChanges(ToggleName) => calls[2].after.overpass_state_AM
    /\ \A c \in OverpassChanges(NoGlobalName) :
          /\ calls[c].ret.type = "NameError"
          /\ calls[c].after = calls[c].before

\* overpass_change('overpass_state_AM') was called twice on the fresh module
C17_Witness ==
    /\ Len(calls) = 2
    /\ OverpassChanges(ToggleName) = {1, 2}
    /\ ~calls[1].after.overpass_state_AM
    /\ overpass_state_AM

(***************************************************************************)
(* Properties of the grid handling (SpecGrids)                             *)
(***************************************************************************)
\* The points of a grid: gpi and location
PointsOf(grid) ==
    {<<grid.gpis[p], grid.lons[p], grid.lats[p]>> : p \in DOMAIN grid.gpis}

\* The points of the target grid are a strict subset of the points of the
\* input grid
StrictSubset ==
    /\ PointsOf(target_grid) \subseteq PointsOf(input_grid)
    /\ PointsOf(target_grid) # PointsOf(input_grid)

\* C13: when the points of the target grid are a strict subset of the points
\* of the input grid, resample is False (the image is sub-set, not
\* interpolated) and at every target location the image handed on has the
\* value the image read has at the input location with the same gpi, in
\* whatever order the two grids list their gpis.
C13_SubsetKeepsValuesByGpi ==
    StrictSubset =>
        /\ ~resample
        /\ grid_image.tag # "read" =>
              /\ grid_image.tag = "subset"
              /\ \A v \in Variables :
                    /\ Len(grid_image.data[v]) = Len(target_grid.gpis)
                    /\ \A p \in DOMAIN target_grid.gpis :
                          grid_image.data[v][p] = PixelValue(v, 1, target_grid.gpis[p])

(***************************************************************************)
(* Properties of two runs over the same input (SpecTwice)                  *)
(***************************************************************************)
\* The (date, overpass) images of the blocks of a run, block by block
ImagesOf(blocks) ==
    [b \in DOMAIN blocks |->
        [r \in DOMAIN blocks[b].timestamps |->
            <<blocks[b].timestamps[r], blocks[b].ops[r]>>]]

\* No (date, overpass) image is in the blocks of a run more than once
NoDoubledObservations(blocks) ==
    \A b1, b2 \in DOMAIN blocks :
        \A r1 \in DOMAIN blocks[b1].timestamps, r2 \in DOMAIN blocks[b2].timestamps :
            (<<b1, r1>> # <<b2, r2>>) =>
                ImagesOf(blocks)[b1][r1] # ImagesOf(blocks)[b2][r2]

\* A run handed a block without images to _write_orthogonal: what the
\* archive library does with it is not fixed by this code, and is not
\* compared between the runs
WroteEmptyBlock(blocks, ws) ==
    \E w \in DOMAIN ws :
        /\ ws[w].func = "_write_orthogonal"
        /\ Len(blocks[ws[w].blk].timestamps) = 0

\* The second run ends as the first one, with the same blocks and the same
\* writes
SecondRunRepeatsFirst ==
    (/\ first_run.tag = "ended" /\ RunEnded
     /\ ~WroteEmptyBlock(yielded, writes)
     /\ ~WroteEmptyBlock(first_run.yielded, first_run.writes)) =>
        /\ pc = first_run.pc
        /\ ImagesOf(yielded) = ImagesOf(first_run.yielded)
        /\ writes = first_run.writes

\* C14: two reshuffle runs over the same input and date range, each into an
\* empty output directory, give the same archive contents: the same
\* (date, overpass) images in every block, the same records per cell in the
\* same order, and no observation twice; also when the second run is made
\* in the process of the first.
C14_RerunGivesSameArchive ==
    (first_run.tag = "ended" /\ RunEnded) =>
        /\ SecondRunRepeatsFirst
        /\ NoDoubledObservations(yielded)
        /\ NoDoubledObservations(first_run.yielded)

(***************************************************************************)
(* Properties of runs over both overpasses (Spec)                          *)
(***************************************************************************)
\* The places <<block, row>> of the (date, overpass) image in the run
PlacesOf(date, op) ==
    {br \in UNION {{<<b, r>> : r \in DOMAIN yielded[b].timestamps} : b \in DOMAIN yielded} :
        ImagesOf(yielded)[br[1]][br[2]] = <<date, op>>}

\* Every file of the input holds the AM and the PM group, and every day
\* folder counts for one AM and one PM image
BothOverpassesEveryDay ==
    /\ Range(source) \subseteq {"ortho", "ragged"}
    /\ \A d \in DOMAIN elements_per_folders : elements_per_folders[d] = 2

\* C15: the series of a reshuffle run with overpass BOTH is the time-ordered
\* union of the series of the AM-only run and the PM-only run over the same
\* input: every AM and every PM observation is there exactly once, and
\* nothing else.
C15_BothIsUnionOfAmAndPm ==
    (/\ entry = "reshuffle" /\ overpass = "BOTH"
     /\ BothOverpassesEveryDay
     /\ RunEnded) =>
        /\ pc = "Done"
        /\ \A d \in DOMAIN source : \A op \in {"AM", "PM"} :
              Cardinality(PlacesOf(d, op)) = 1
        /\ \A b \in DOMAIN yielded : \A r \in DOMAIN yielded[b].timestamps :
              \A r2 \in DOMAIN yielded[b].timestamps :
                  yielded[b].timestamps[r] = yielded[b].timestamps[r2] /\ r < r2 =>
                      yielded[b].ops[r] = "AM" /\ yielded[b].ops[r2] = "PM"

(***************************************************************************)
(* Properties of failing units of work (Spec)                              *)
(***************************************************************************)
\* Every timestamp of the date range is requested once
OneRequestPerTimestamp ==
    \A i \in DOMAIN elements_per_folders : elements_per_folders[i] = 1

\* The overpass request i stands for: of the two requests of a day of a
\* BOTH data set the first is the AM and the second the PM image
RequestedOp(i) ==
    IF overpass = "BOTH" THEN (IF i % 2 = 1 THEN "AM" ELSE "PM") ELSE overpass

\* The file of request i can be opened and holds the group of its overpass
Readable(i) == ReadOutcome(Requests[i], RequestedOp(i)) = "ok"

\* The rows of block b that hold the image of request i
RowsOf(b, i) ==
    {r \in DOMAIN yielded[b].timestamps :
        /\ yielded[b].timestamps[r] = Requests[i]
        /\ yielded[b].ops[r] = RequestedOp(i)}

\* Block b has a request that cannot be read
HasFailedRead(b) == \E i \in Range(Chunks[b]) : ~Readable(i)

\* The cells written for block b, and the ones whose write failed
CellsWritten(b) == {writes[w].cell : w \in {x \in DOMAIN writes : writes[x].blk = b}}
CellsFailed(b) ==
    {writes[w].cell : w \in {x \in DOMAIN writes : writes[x].blk = b /\ ~writes[x].ok}}

\* The writes of block b are over
BlockWritten(b) == b < chunk \/ (b = chunk /\ to_write = {} /\ pc \in {"WriteCells", "Done"})

\* C18: under ignore_errors=True a failed read of one date or a failed write
\* of one cell leaves the other units of the block alone: every other
\* requested (date, overpass) that is readable is in the block, with the
\* data of that date and overpass, and every other cell is written with its
\* partition; with overpass BOTH a failed read does not change the overpass
\* of the reads after it.
C18_FailureLeavesOthersAlone ==
    (/\ ignore_errors /\ OneRequestPerTimestamp
     /\ ~({"ortho", "ragged"} \subseteq Range(source))) =>
        /\ \A b \in DOMAIN yielded :
              HasFailedRead(b) =>
                  \A i \in Range(Chunks[b]) :
                      Readable(i) => Cardinality(RowsOf(b, i)) = 1
        /\ \A b \in DOMAIN yielded :
              (BlockWritten(b) /\ CellsFailed(b) # {}) =>
                  CellsWritten(b) = Range(target_grid.cells)

\* The reads, by position in the run, of a request whose file has the kind
\* `kind`
ReadsOfKind(kind) == {p \in DOMAIN reads : source[Requests[reads[p]]] = kind}

\* The run has stopped with the read at position p: the exception is out,
\* nothing was read after it, and its block was neither yielded nor written
AbortedAtRead(p) ==
    /\ pc = "Raised"
    /\ p = Len(reads)
    /\ Len(yielded) = chunk - 1
    /\ \A w \in DOMAIN writes : writes[w].blk < chunk

\* The run has stopped with the write at position w: the exception is out,
\* no cell was written after it and no later block was read
AbortedAtWrite(w) ==
    /\ pc = "Raised"
    /\ w = Len(writes)
    /\ chunk = writes[w].blk
    /\ Len(yielded) = chunk

\* Strict mode aborts on a failed field lookup and on a failed cell write
StrictAbortsOnLookupAndWrite ==
    ~ignore_errors =>
        /\ \A p \in ReadsOfKind("nameerror") : AbortedAtRead(p)
        /\ \A w \in DOMAIN writes : ~writes[w].ok => AbortedAtWrite(w)

\* C19: with ignore_errors=False every failed unit of work aborts the run
\* and the exception propagates: a date that cannot be read (file missing or
\* not openable, or a failed field lookup) or a cell that cannot be written;
\* no later block is read or written.
C19_StrictModeAborts ==
    ~ignore_errors =>
        /\ \A p \in ReadsOfKind("ioerror") : AbortedAtRead(p)
        /\ \A p \in ReadsOfKind("nameerror") : AbortedAtRead(p)
        /\ \A w \in DOMAIN writes : ~writes[w].ok => AbortedAtWrite(w)

(***************************************************************************)
(* Properties of the I/O errors of a cell write (SpecWrite)                *)
(***************************************************************************)
\* C20: an I/O error of a cell write that is not transient file contention
\* is not retried; it leaves the Cell Writer as an exception and ends the
\* write of that cell (under ignore_errors the other cells of the block are
\* still written and the run goes on).
C20_OtherIOErrorsPropagate ==
    oserror = "other I/O error" => wpc = "Raised"

(***************************************************************************)
(* Properties of the ragged archive of a cell (SpecWrite)                  *)
(***************************************************************************)
\* The locations written by the call that has returned
WrittenLocations == Range(gpis)

\* C21: in ragged mode the location count declared for the archive of a
\* cell is the number of distinct locations written for the cell: not the
\* number of observation records, and not counting a location all of whose
\* observations were dropped.
C21_DeclaredCountIsWrittenLocations ==
    (WriterFunc = "_write_non_orthogonal" /\ wpc = "Returned") =>
        DeclaredLocations = Cardinality(WrittenLocations)

(***************************************************************************)
(* Properties of the blocks and their cell writes (Spec)                   *)
(***************************************************************************)
\* The largest timestamp of block b as a string, "unknown" for an empty block
LastTimestampOf(b) ==
    LET ts == yielded[b].timestamps
    IN IF Len(ts) = 0 THEN "unknown"
       ELSE ToString(CHOOSE t \in Range(ts) : \A u \in Range(ts) : u <= t)

\* C22: when calc has partitioned a block, the global attribute
\* time_coverage_end is the string of the last (largest) timestamp in the
\* block, and "unknown" for an empty block; it is set before the cell writes
\* of the block are dispatched, so that every write of the block carries it.
C22_TimeCoverageEnd ==
    /\ pc = "WriteCells" => global_attr.time_coverage_end = LastTimestampOf(chunk)
    /\ \A w \in DOMAIN writes :
          writes[w].time_coverage_end = LastTimestampOf(writes[w].blk)

\* Two workers read a block of two days out of order, and a cell of the block
\* is written with the later day as time_coverage_end
C22_Witness ==
    /\ Len(reads) >= 2 /\ reads[1] = 2 /\ reads[2] = 1
    /\ \E w \in DOMAIN writes :
          /\ writes[w].blk = 1
          /\ yielded[1].timestamps = <<1, 2>>
          /\ writes[w].time_coverage_end = ToString(2)

\* The requests of the blocks up to block b
RequestsUpTo(b) == UNION {Range(Chunks[c]) : c \in 1..b}

\* C23: blocks are produced and consumed in increasing date order: no image
\* of block N+1 is read before all cell writes of block N have returned, and
\* every timestamp of block N+1 is greater than or equal to every timestamp
\* of block N.
C23_BlocksInDateOrder ==
    /\ Range(reads) \subseteq RequestsUpTo(chunk)
    /\ \A b \in 1..(chunk - 1) :
          /\ b \in DOMAIN yielded
          /\ CellsWritten(b) = Range(target_grid.cells)
    /\ \A b1, b2 \in DOMAIN yielded :
          b1 < b2 =>
              \A r1 \in DOMAIN yielded[b1].timestamps,
                 r2 \in DOMAIN yielded[b2].timestamps :
                  yielded[b1].timestamps[r1] <= yielded[b2].timestamps[r2]

\* The second block is being read, after the two cells of the first block
\* were written, and the third block follows
C23_Witness ==
    /\ Len(yielded) = 3
    /\ \A b \in 1..3 : Len(yielded[b].timestamps) > 0
    /\ Cardinality(CellsWritten(1)) = 2
    /\ Cardinality(CellsWritten(2)) = 2
    /\ n_proc = 2

\* The grid objects the Img2Ts object was constructed with
GridsOfRun == [target_grid |-> GridRef(target_grid), input_grid |-> GridRef(input_grid)]

\* img_bulk has its reads dispatched, or calc its cell writes
WorkDispatched ==
    \/ pc = "ReadBlock"
    \/ pc = "WriteCells" /\ to_write # {}

\* Results are collected: img_bulk is at its yield, or calc is at the end of
\* an iteration (or has returned)
ResultsCollected ==
    \/ pc = "PartitionByCell"
    \/ pc = "WriteCells" /\ to_write = {}
    \/ pc = "Done"

\* C24: while img_bulk or calc has parallel work dispatched, self.target_grid
\* and self.input_grid are None; at every yield of img_bulk and at the end of
\* every calc iteration both refer again to the grid objects of before the
\* dispatch; and no step of the run changes the target grid.
C24_GridsDetachedWhileDispatched ==
    /\ [](/\ WorkDispatched => grid_refs.self = NoGrids
          /\ ResultsCollected => grid_refs.self = GridsOfRun)
    /\ [][target_grid' = target_grid]_vars

\* Two blocks went through read and write, the first with two cells written
\* in parallel, and the grids are back on the object
C24_Witness ==
    /\ chunk = 2
    /\ pc = "WriteCells" /\ to_write = {}
    /\ Cardinality(CellsWritten(1)) = 2
    /\ Cardinality(CellsWritten(2)) = 2
    /\ n_proc = 2
    /\ grid_refs.self = GridsOfRun
    /\ grid_refs.calc = GridsOfRun
    /\ grid_refs.img_bulk = GridsOfRun

\* The Cell Writer invocations of block b, as positions in the write history
WritesOf(b) == {w \in DOMAIN writes : writes[w].blk = b}

\* C25: within one block calc dispatches exactly one Cell Writer invocation
\* per distinct cell of the target grid and no two of them target the same
\* archive file, for every n_proc; a file is written again only by a later
\* block.
C25_OneWritePerCellAndBlock ==
    /\ \A w1, w2 \in DOMAIN writes :
          (w1 # w2 /\ writes[w1].blk = writes[w2].blk) =>
              FileName(writes[w1].cell) # FileName(writes[w2].cell)
    /\ \A b \in 1..chunk :
          BlockWritten(b) =>
              /\ CellsWritten(b) = Range(target_grid.cells)
              /\ Cardinality(WritesOf(b)) = Cardinality(Range(target_grid.cells))
    /\ \A w1, w2 \in DOMAIN writes :
          (w1 < w2 /\ FileName(writes[w1].cell) = FileName(writes[w2].cell)) =>
              writes[w1].blk < writes[w2].blk

\* Two blocks of a grid with two cells, written by two workers, the first
\* block with the larger cell first; the second block writes both files again
C25_Witness ==
    /\ n_proc = 2
    /\ Len(writes) = 4
    /\ writes[1].blk = 1 /\ writes[2].blk = 1
    /\ writes[3].blk = 2 /\ writes[4].blk = 2
    /\ writes[1].cell > writes[2].cell
    /\ FileName(writes[3].cell) = FileName(writes[2].cell)
    /\ FileName(writes[4].cell) = FileName(writes[1].cell)

\* Record k (counted from 0) of the expansion of the cell in
\* location-then-time order: location k div n_t, time slot k mod n_t
ExpandedRecord(k) ==
    LET n_t == Len(cell_time[1])
        l   == (k \div n_t) + 1
        t   == (k % n_t) + 1
    IN [gpi  |-> cell_gpis[l],
        lon  |-> CellLons[l],
        lat  |-> CellLats[l],
        time |-> cell_time[l][t],
        sm   |-> cell_sm[l][t]]

\* The records h taken as whole records, in order, from the expansion: the
\* arrays of h have one length and their i-th elements are one record
WholeRecordsInOrder(h) ==
    LET n == Len(cell_gpis) * Len(cell_time[1])
    IN \E K \in SUBSET (0..(n - 1)) :
         LET ks == SortedSeq(K)
         IN /\ h.gpis = [i \in 1..Len(ks) |-> ExpandedRecord(ks[i]).gpi]
            /\ h.lons = [i \in 1..Len(ks) |-> ExpandedRecord(ks[i]).lon]
            /\ h.lats = [i \in 1..Len(ks) |-> ExpandedRecord(ks[i]).lat]
            /\ h.time = [i \in 1..Len(ks) |-> ExpandedRecord(ks[i]).time]
            /\ h.sm   = [i \in 1..Len(ks) |-> ExpandedRecord(ks[i]).sm]

\* C26: _write_non_orthogonal expands the (location x time) arrays of a cell
\* in location-then-time order, record k taking its location, longitude,
\* latitude, time stamp and value from location k div n_t and time slot
\* k mod n_t, and the filtering removes whole records only and keeps the
\* order of the others: what is handed to the archive is a subsequence of
\* whole records of the expansion.
C26_FlatRecordsStayWhole ==
    WriterFunc = "_write_non_orthogonal" =>
        \A h \in handed : WholeRecordsInOrder(h)

\* The reads per day reshuffle() configures without
\* use_all_elements_per_folder
ConfiguredReads == IF overpass = "BOTH" THEN 2 ELSE 1

\* A reshuffle() run with use_all_elements_per_folder false
ReshuffleDefaultRun ==
    /\ entry = "reshuffle"
    /\ \A i \in DOMAIN elements_per_folders : elements_per_folders[i] = ConfiguredReads

\* calc() has entered img_bulk: the timestamps were expanded, or the
\* expansion raised
ImgBulkEntered ==
    \/ chunk >= 1
    \/ pc = "Raised" /\ grid_saved = 1 /\ chunk = 0

\* The reads img_bulk has issued for day d
ReadsOfDay(d) == {r \in DOMAIN reads : Requests[reads[r]] = d}

\* C27: for a date range of D >= 1 days img_bulk issues for every day
\* exactly the configured number of reads, each with that day's timestamp
\* (1 per day for a single overpass, 2 per day for BOTH, without
\* use_all_elements_per_folder), also when a day of the range has no input
\* folder, and the expansion never indexes elements_per_folders out of
\* range.
C27_ConfiguredReadsPerDay ==
    (ReshuffleDefaultRun /\ ImgBulkEntered) =>
        /\ ~ExpansionRaises
        /\ \A d \in 1..NumDays :
              Cardinality({i \in DOMAIN Requests : Requests[i] = d}) = ConfiguredReads
        /\ pc = "Done" =>
              \A d \in 1..NumDays : Cardinality(ReadsOfDay(d)) = ConfiguredReads

\* Since the import of smap_io.interface, only reads of a reader with
\* overpass BOTH have touched the module globals
FreshProcessOfReads ==
    /\ img_overpass = "BOTH"
    /\ \A c \in DOMAIN calls : calls[c].fn = "read"

\* The number of successful reads among the first c calls
SuccessfulUpTo(c) == Cardinality({x \in ImageReads : x <= c})

\* AM, AM, PM, AM, PM, ...: the overpass of the k-th successful read
OverpassOfRead(k) == IF k = 1 \/ k % 2 = 0 THEN "AM" ELSE "PM"

\* C28: with overpass BOTH in a fresh process (counter = 0,
\* overpass_state_AM = True) the successive successful reads use the
\* overpasses AM, AM, PM, AM, PM, ...: the first successful read increments
\* the counter and leaves the toggle, every later one flips the toggle once,
\* and a read that raises changes neither the toggle nor the counter.
C28_OverpassSequence ==
    FreshProcessOfReads =>
        \A c \in DOMAIN calls :
            IF calls[c].ret.type = "Image"
            THEN /\ calls[c].arg = OverpassOfRead(SuccessfulUpTo(c))
                 /\ calls[c].after.counter = calls[c].before.counter + 1
                 /\ calls[c].after.overpass_state_AM =
                        IF SuccessfulUpTo(c) = 1
                        THEN calls[c].before.overpass_state_AM
                        ELSE ~calls[c].before.overpass_state_AM
            ELSE calls[c].after = calls[c].before

\* The images the side-by-side reads have returned for a date, per overpass
ImagesOfDate(d, o) ==
    {g \in DOMAIN readers.got : readers.got[g].date = d /\ readers.got[g].op = o}

\* All reads handed to the readers have returned
ReadersDone == readers.started /\ \A w \in DOMAIN readers.todo : readers.todo[w] = <<>>

\* C29: readers with overpass BOTH do not interfere: when the reads run
\* concurrently (threads of one img_bulk) or two reader instances are used in
\* one process, every day whose two reads succeed has exactly one AM image
\* and one PM image, under every interleaving.
C29_ReadersDoNotInterfere ==
    ReadersDone =>
        \A d \in {readers.got[g].date : g \in DOMAIN readers.got} :
            /\ Cardinality(ImagesOfDate(d, "AM")) = 1
            /\ Cardinality(ImagesOfDate(d, "PM")) = 1

\* Block b was yielded empty: every date of its chunk failed to read
EmptyBlock(b) == b \in DOMAIN yielded /\ yielded[b].timestamps = <<>>

\* C30: when every date of a block fails to read (the yielded block has no
\* variables and no timestamps), calc finishes the block without any Cell
\* Writer invocation raising and without writing a record, in orthogonal and
\* in ragged mode and also under ignore_errors=False, and goes on with the
\* next block.
C30_EmptyBlockIsHarmless ==
    /\ \A w \in DOMAIN writes : EmptyBlock(writes[w].blk) => writes[w].ok
    /\ (EmptyBlock(chunk) /\ pc = "WriteCells") => DOMAIN ITER_KWARGS.data = {}
    /\ ~(EmptyBlock(chunk) /\ pc = "Raised")

====
